---- MODULE Spec2Model ----
(***************************************************************************)
(* The record-collection engine of the google-maps-scraper scripts: the     *)
(* bounded, de-duplicating accumulation of shop records (shops_data) as it  *)
(* is driven by the run loops of                                            *)
(*   FastKaohsiungScraper          (fast_kaohsiung_scraper.py)              *)
(*   MultiSourceKaohsiungScraper   (multi_source_kaohsiung_scraper.py)      *)
(*   KaohsiungPrecisionScraper     (google_maps_scraper_kaohsiung_precision)*)
(*   GoogleMapsDetailedScraper     (google_maps_scraper_detailed.py)        *)
(*   GoogleMapsTurboFirefoxScraper (google_maps_scraper_turbo_firefox.py)   *)
(* One behaviour runs one scraper; Init chooses which (variable scraper).   *)
(* The browser and the web are the environment: what a search or a page     *)
(* yields is drawn with \E from small pools, one item at a time, in the     *)
(* order the code's for-loops consume it.                                   *)
(***************************************************************************)
EXTENDS Integers, Sequences, FiniteSets, TLC

VARIABLES
    scraper,                \* which class this behaviour runs
    target_shops,           \* self.target_shops
    shops_data,             \* self.shops_data
    pc,                     \* position of the run method
    i,                      \* outer loop index (search term / task / landmark / location)
    j,                      \* inner loop index (platform / shop type)
    n,                      \* items consumed by the for-loop in progress
    offers,                 \* candidates drawn from the environment so far
    offered,                \* history: the candidates run_fast_scraping iterated over
    last_offer,             \* history: the last candidate, shops_data before it, the outcome
    current_location,       \* self.current_location (Detailed, Turbo)
    current_location_shops, \* self.current_location_shops (Detailed, Turbo)
    scroll_count,           \* scroll_and_extract: scroll_count
    no_change_count,        \* scroll_and_extract: no_change_count
    last_count,             \* scroll_and_extract: last_count
    seen_hrefs,             \* extract_current_shops: seen_hrefs of the call in progress
    ret_pc,                 \* where the extract call in progress returns to
    new_shops,              \* extract_current_shops: len(new_shops) of the call in progress
    should_continue,        \* the value scroll_and_extract returned
    tpc,                    \* per thread: position in the check-then-add step
    tshop,                  \* per thread: the candidate it holds
    data_lock,              \* self.data_lock: its holder, or NoThread
    source_stats,           \* run_*_scraping: source_stats / platform_stats
    stats_reported,         \* the statistics have been computed and printed
    fn,                     \* the function or method applied last, "none" before any
    arg,                    \* its input
    out,                    \* its result
    info,                   \* extract_shop_info: its shop_info, the record being filled in
    step,                   \* extract_shop_info: the position in the method
    attempt,                \* extract_shop_info: the index of the retry loop in progress
    calls,                  \* history: how often each extract_*_detailed was called
    got,                    \* history: the fields an attempt returned a value for
    info_result,            \* extract_shop_info: what it returns, << >> for None, else << the record >>
    all_results,            \* yunlin.run_search_all_areas: its result list
    global_seen_places,     \* yunlin: the module-level set of place ids
    area,                   \* run_search_all_areas: index of the area loop
    places,                 \* run_search_all_areas: places of this area consumed so far
    driver,                 \* run_precision_scraping: self.driver is set
    quits,                  \* history: the calls of self.driver.quit()
    saves,                  \* history: the save_to_excel calls of the run, with the records passed
    raised                  \* history: an exception reached a handler of the run method

vars == << scraper, target_shops, shops_data, pc, i, j, n, offers, offered,
           last_offer, current_location, current_location_shops, scroll_count,
           no_change_count, last_count, seen_hrefs, ret_pc, new_shops,
           should_continue, tpc, tshop, data_lock, source_stats, stats_reported,
           fn, arg, out, info, step, attempt, calls, got, info_result,
           all_results, global_seen_places, area, places,
           driver, quits, saves, raised >>

----------------------------------------------------------------------------
(* Bounds of the model *)

MaxTarget == 2      \* target_shops ranges over 1..MaxTarget
MaxOffers == 4      \* candidates the environment supplies in one run
NumTerms == 2       \* search terms walked by run_fast_scraping
NumAreas == 2       \* areas walked by generate_shop_data, and by run_search_all_areas
NumPrefixes == 2    \* prefixes per area in generate_shop_data
NumTasks == 2       \* (keyword, area) tasks walked by run_multi_source_scraping
NumLandmarks == 2   \* landmarks (locations) walked by a run
NumShopTypes == 2   \* shop types searched per landmark
MaxProcess == 2     \* links one extract_current_shops call processes
max_scrolls == 3    \* scroll_and_extract: max_scrolls, scaled down
max_no_change == 2  \* scroll_and_extract: max_no_change, scaled down
AutoStopShops == 2  \* run_detailed_scraping: the 600 of the automatic stop, scaled down
MinDigits == 7      \* fewest digits of a phone text of the pool
MaxDigits == 13     \* most digits of a phone text of the pool

----------------------------------------------------------------------------
(* Strings are sequences of one-character strings. *)

EmptyStr == << >>

lower_char(c) ==
    CASE c = "A" -> "a"
      [] c = "B" -> "b"
      [] c = "C" -> "c"
      [] c = "P" -> "p"
      [] c = "N" -> "n"
      [] c = "U" -> "u"
      [] c = "L" -> "l"
      [] c = "S" -> "s"
      [] OTHER -> c

\* str.lower()
lower(s) == [k \in 1..Len(s) |-> lower_char(s[k])]

isspace(c) == c = " "

RECURSIVE lstrip(_)
lstrip(s) == IF s # << >> /\ isspace(Head(s)) THEN lstrip(Tail(s)) ELSE s

RECURSIVE rstrip(_)
rstrip(s) ==
    IF s # << >> /\ isspace(s[Len(s)]) THEN rstrip(SubSeq(s, 1, Len(s) - 1)) ELSE s

\* str.strip()
strip(s) == rstrip(lstrip(s))

\* c.isalnum()
isalnum(c) == c \in {"a", "b", "c", "p", "x", "y", "A", "B", "C", "P"}

\* s.startswith(p)
startswith(s, p) == Len(s) >= Len(p) /\ SubSeq(s, 1, Len(p)) = p

\* "t in s" for strings
contains(s, t) ==
    \E k \in 0..(Len(s) - Len(t)) : SubSeq(s, k + 1, k + Len(t)) = t

IsPrefix(s, t) == Len(s) <= Len(t) /\ SubSeq(t, 1, Len(s)) = s

Take(s, k) == SubSeq(s, 1, IF k < Len(s) THEN k ELSE Len(s))

----------------------------------------------------------------------------
(* Shop records.  A key a scraper does not set is read with .get(key, '')  *)
(* by the code, so an absent key is the empty value here.  Locations are   *)
(* numbered from 1 in the order the run walks them; 0 is "not set".        *)

ShopInfo(nm, url, ph, src, loc) ==
    [name |-> nm, google_maps_url |-> url, phone |-> ph, source |-> src,
     search_location |-> loc]

NoShop == ShopInfo(EmptyStr, EmptyStr, "", "", 0)

NoThread == "none"

NoOffer == [shop |-> NoShop, before |-> << >>, result |-> "none"]

Offer(shop, before, result) == [shop |-> shop, before |-> before, result |-> result]

----------------------------------------------------------------------------
(* Frames *)

ConfigVars == << scraper, target_shops >>
LocVars == << current_location, current_location_shops >>
ScrollVars == << scroll_count, no_change_count, last_count, seen_hrefs, ret_pc,
                 new_shops, should_continue >>
ThreadVars == << tpc, tshop, data_lock >>
StatVars == << source_stats, stats_reported >>
InfoVars == << info, step, attempt, calls, got, info_result >>
YunlinVars == << all_results, global_seen_places, area, places >>
RunVars == << driver, quits, saves, raised >>
AuxVars == << fn, arg, out, InfoVars, YunlinVars >>

\* An empty dict
EmptyDict == [x \in {} |-> 0]

\* The three fields extract_shop_info fills in from the detail page
DetailFields == {"address", "phone", "line_contact"}

\* The values a field holds when nothing was obtained: the one shop_info
\* starts with, and the one the extractor returns when it raised inside
NotProvided ==
    [address      |-> << "zh:di", "zh:zhi", "zh:wei", "zh:ti", "zh:gong" >>,
     phone        |-> << "zh:dian", "zh:hua", "zh:wei", "zh:ti", "zh:gong" >>,
     line_contact |-> << "L", "I", "N", "E", "zh:wei", "zh:ti", "zh:gong" >>]
FetchFailed ==
    [address      |-> << "zh:di", "zh:zhi", "zh:huo", "zh:qu", "zh:shi", "zh:bai" >>,
     phone        |-> << "zh:dian", "zh:hua", "zh:huo", "zh:qu", "zh:shi", "zh:bai" >>,
     line_contact |-> << "L", "I", "N", "E", "zh:huo", "zh:qu", "zh:shi", "zh:bai" >>]

\* KaohsiungPrecisionScraper.__init__: self.driver = None; nothing saved
RunInit ==
    /\ driver = FALSE
    /\ quits = 0
    /\ saves = << >>
    /\ raised = FALSE

\* yunlin: the module as imported, run_search_all_areas not yet called
YunlinInit ==
    /\ all_results = << >>
    /\ global_seen_places = {}
    /\ area = 0
    /\ places = 0

\* Before extract_shop_info is entered
InfoInit ==
    /\ info = [f \in {} |-> << >>]
    /\ step = "none"
    /\ attempt = 0
    /\ calls = [f \in DetailFields |-> 0]
    /\ got = {}
    /\ info_result = << >>

\* Variant of the statistics loop that writes 1 instead of adding 1
RECURSIVE count_sources_overwriting(_, _, _)
count_sources_overwriting(data, k, stats) ==
    IF k > Len(data) THEN stats
    ELSE LET source == data[k].source IN
         count_sources_overwriting(data, k + 1,
             IF source \in DOMAIN stats THEN [stats EXCEPT ![source] = 1]
             ELSE stats @@ (source :> 1))

\* run_fast_scraping / run_multi_source_scraping: the statistics loop
\* "for shop in self.shops_data: stats[source] = stats.get(source, 0) + 1",
\* from record k on
RECURSIVE count_sources(_, _, _)
count_sources(data, k, stats) ==
    IF k > Len(data) THEN stats
    ELSE LET source == data[k].source IN
         count_sources(data, k + 1,
             IF source \in DOMAIN stats THEN [stats EXCEPT ![source] = @ + 1]
             ELSE stats @@ (source :> 1))

----------------------------------------------------------------------------
(* FastKaohsiungScraper *)

\* Texts of the h3 elements a Google result page can hold (all carry a beauty
\* keyword, so the relevance test of fast_google_search passes for them).
FastRawTitles ==
    { <<"a", "b", "c">>, <<"A", "b", "c", " ">>, <<"c", "b", "a">>,
      <<"P", "x", "y">>, <<"a", "b">> }

\* fast_google_search: title = title_elem.text.strip()
FastTitle(raw) == strip(raw)

\* fast_google_search: "if not title or len(title) < 3: continue"
FastTitleKept(raw) == Len(FastTitle(raw)) >= 3

\* fast_google_search: the shop_info built for one kept result
FastSearchShop(raw) == ShopInfo(FastTitle(raw), EmptyStr, "unknown", "Google", 0)

\* The shops a call of fast_google_search can return
FastSearchResults == { FastSearchShop(raw) : raw \in {r \in FastRawTitles : FastTitleKept(r)} }

\* generate_shop_data: prefixes and name_patterns
FastPrefixes == <<"p", "q", "c">>
FastNamePatterns == << <<"x", "y">>, <<"x", "x">>, <<"y", "y">> >>

\* generate_shop_data: name = name_patterns[j % len(name_patterns)].format(prefix)
FastGeneratedName(jj) ==
    <<FastPrefixes[jj]>> \o FastNamePatterns[((jj - 1) % Len(FastNamePatterns)) + 1]

\* generate_shop_data: one shop per (area, prefix), areas outermost
FastGeneratedShops ==
    [k \in 1..(NumAreas * NumPrefixes) |->
        ShopInfo(FastGeneratedName(((k - 1) % NumPrefixes) + 1), EmptyStr, "07",
                 "generated", 0)]

\* Variant of the duplicate loop that compares the names as they are
Fast_is_duplicate_exact(data, shop_info) ==
    \E k \in 1..Len(data) : data[k].name = shop_info.name

\* add_shop_data: the duplicate loop
Fast_is_duplicate(data, shop_info) ==
    \E k \in 1..Len(data) :
        strip(lower(data[k].name)) = strip(lower(shop_info.name))

\* Variant of add_shop_data without the duplicate loop
Fast_add_shop_data_always(data, shop_info) == Append(data, shop_info)

\* add_shop_data: the list after the call
Fast_add_shop_data(data, shop_info) ==
    IF Fast_is_duplicate(data, shop_info) THEN data ELSE Append(data, shop_info)

\* run_fast_scraping: "if len(self.shops_data) >= self.target_shops: break"
Fast_target_reached(data, target) == Len(data) >= target

FastResult(data, shop_info) ==
    IF Fast_is_duplicate(data, shop_info) THEN "duplicate" ELSE "admitted"

\* run_fast_scraping, strategy 1: the body of "for shop in shops" for the next shop
FastSearchNextShop(shop) ==
    /\ scraper = "Fast" /\ pc = "search"
    /\ offers < MaxOffers
    /\ offers' = offers + 1
    /\ offered' = Append(offered, shop)
    /\ IF Fast_target_reached(shops_data, target_shops)
       THEN \* break, then the break of line 253
            /\ shops_data' = shops_data
            /\ last_offer' = Offer(shop, shops_data, "cap")
            /\ pc' = "generate"
            /\ n' = 0
            /\ i' = i
       ELSE /\ shops_data' = Fast_add_shop_data(shops_data, shop)
            /\ last_offer' = Offer(shop, shops_data, FastResult(shops_data, shop))
            /\ pc' = pc
            /\ n' = n + 1
            /\ i' = i
    /\ UNCHANGED << ConfigVars, StatVars, AuxVars, RunVars, j, LocVars, ScrollVars, ThreadVars >>

\* run_fast_scraping, strategy 1: the list of this search term is exhausted
FastSearchListEnd ==
    /\ scraper = "Fast" /\ pc = "search"
    /\ IF Fast_target_reached(shops_data, target_shops) \/ i + 1 >= NumTerms
       THEN pc' = "generate" /\ i' = i
       ELSE pc' = pc /\ i' = i + 1
    /\ n' = 0
    /\ UNCHANGED << ConfigVars, StatVars, AuxVars, RunVars, shops_data, j, offers, offered, last_offer, LocVars,
                    ScrollVars, ThreadVars >>

\* run_fast_scraping, strategy 2: "if len(self.shops_data) < self.target_shops"
FastGenerate ==
    /\ scraper = "Fast" /\ pc = "generate"
    /\ pc' = IF Fast_target_reached(shops_data, target_shops) THEN "save" ELSE "generated"
    /\ n' = 0
    /\ UNCHANGED << ConfigVars, StatVars, AuxVars, RunVars, shops_data, i, j, offers, offered, last_offer, LocVars,
                    ScrollVars, ThreadVars >>

\* run_fast_scraping, strategy 2: one turn of "for shop in generated_shops"
FastGeneratedNextShop ==
    /\ scraper = "Fast" /\ pc = "generated"
    /\ IF n >= Len(FastGeneratedShops)
       THEN /\ pc' = "save"
            /\ UNCHANGED << shops_data, n, offered, last_offer >>
       ELSE LET shop == FastGeneratedShops[n + 1] IN
            /\ offered' = Append(offered, shop)
            /\ n' = n + 1
            /\ IF Fast_target_reached(shops_data, target_shops)
               THEN /\ shops_data' = shops_data
                    /\ last_offer' = Offer(shop, shops_data, "cap")
                    /\ pc' = "save"
               ELSE /\ shops_data' = Fast_add_shop_data(shops_data, shop)
                    /\ last_offer' = Offer(shop, shops_data, FastResult(shops_data, shop))
                    /\ pc' = pc
    /\ UNCHANGED << ConfigVars, StatVars, AuxVars, RunVars, i, j, offers, LocVars, ScrollVars, ThreadVars >>

\* run_fast_scraping: save_results and the source statistics, then return
FastSave ==
    /\ scraper = "Fast" /\ pc = "save"
    /\ pc' = "done"
    /\ IF shops_data = << >>
       THEN UNCHANGED StatVars
       ELSE \E saved \in BOOLEAN :
               IF saved
               THEN /\ source_stats' = count_sources(shops_data, 1, EmptyDict)
                    /\ stats_reported' = TRUE
               ELSE \* save_results raises: "except Exception", no statistics
                    UNCHANGED StatVars
    /\ UNCHANGED << ConfigVars, AuxVars, RunVars, shops_data, i, j, n, offers, offered, last_offer,
                    LocVars, ScrollVars, ThreadVars >>

FastNext ==
    \/ \E shop \in FastSearchResults : FastSearchNextShop(shop)
    \/ FastSearchListEnd
    \/ FastGenerate
    \/ FastGeneratedNextShop
    \/ FastSave

----------------------------------------------------------------------------
(* MultiSourceKaohsiungScraper *)

\* run_multi_source_scraping: the platforms list, by the 'source' each one writes
MultiPlatforms == <<"Google", "business", "social", "directory">>

\* Texts a platform page can hold for a shop name
MultiRawNames == { <<"a", "b", "c">>, <<"A", "b", "c", " ">>, <<"c", "b", "a">>, <<"a", "b">> }

\* Phone values a scrape function writes: a regex match, or the placeholder
\* it writes when nothing matches
MultiNeedsQuery == "needs_query"
MultiPhones == {"07-1", MultiNeedsQuery}

\* scrape_*: name = ....strip(); "if len(name) < 3 ...: continue"
MultiNameKept(raw) == Len(strip(raw)) >= 3

\* scrape_*: the shop_info built for one kept card
MultiShop(raw, ph, src) == ShopInfo(strip(raw), EmptyStr, ph, src, 0)

\* The shops a call of platform src can return
MultiResults(src) ==
    { MultiShop(raw, ph, src) : raw \in {r \in MultiRawNames : MultiNameKept(r)},
                                ph \in MultiPhones }

\* Variant of the duplicate condition that looks at the name only
Multi_matches_name_only(existing, shop_info) ==
    strip(lower(existing.name)) = strip(lower(shop_info.name))

\* add_shop_data: the condition of the duplicate loop for one existing record
Multi_matches(existing, shop_info) ==
    \/ strip(lower(existing.name)) = strip(lower(shop_info.name))
    \/ /\ existing.phone = shop_info.phone
       /\ shop_info.phone \notin {"", MultiNeedsQuery}

\* add_shop_data: the duplicate loop
Multi_is_duplicate(data, shop_info) ==
    \E k \in 1..Len(data) : Multi_matches(data[k], shop_info)

\* Variant of add_shop_data in which a duplicate sighting overwrites the
\* record it duplicates
Multi_add_shop_data_merging(data, shop_info) ==
    IF \E k \in 1..Len(data) : Multi_matches(data[k], shop_info)
    THEN [k \in 1..Len(data) |->
             IF Multi_matches(data[k], shop_info) THEN shop_info ELSE data[k]]
    ELSE Append(data, shop_info)

\* add_shop_data: the list after the call
Multi_add_shop_data(data, shop_info) ==
    IF Multi_is_duplicate(data, shop_info) THEN data ELSE Append(data, shop_info)

\* Variant of the cap test that is off by one
Multi_target_exceeded(data, target) == Len(data) > target

\* run_multi_source_scraping: "if len(self.shops_data) >= self.target_shops: break"
Multi_target_reached(data, target) == Len(data) >= target

MultiResult(data, shop_info) ==
    IF Multi_is_duplicate(data, shop_info) THEN "duplicate" ELSE "admitted"

\* Variant of the advance that ends the run
MultiAdvance_stop == pc' = "save" /\ i' = i /\ j' = j

\* run_multi_source_scraping: leave platform j of task i without a break:
\* the next platform, or past the last one the check of line 495 and the next task
MultiAdvance ==
    IF j + 1 < Len(MultiPlatforms)
    THEN pc' = pc /\ i' = i /\ j' = j + 1
    ELSE IF Multi_target_reached(shops_data', target_shops) \/ i + 1 >= NumTasks
         THEN pc' = "save" /\ i' = i /\ j' = j
         ELSE pc' = pc /\ i' = i + 1 /\ j' = 0

\* run_multi_source_scraping: the body of "for shop in shops" for the next shop
MultiPlatformNextShop(shop) ==
    /\ scraper = "Multi" /\ pc = "platform"
    /\ offers < MaxOffers
    /\ offers' = offers + 1
    /\ IF Multi_target_reached(shops_data, target_shops)
       THEN \* break, then the breaks of lines 487 and 495
            /\ shops_data' = shops_data
            /\ last_offer' = Offer(shop, shops_data, "cap")
            /\ pc' = "save"
       ELSE /\ shops_data' = Multi_add_shop_data(shops_data, shop)
            /\ last_offer' = Offer(shop, shops_data, MultiResult(shops_data, shop))
            /\ pc' = pc
    /\ UNCHANGED << ConfigVars, StatVars, AuxVars, RunVars, i, j, n, offered, LocVars, ScrollVars, ThreadVars >>

\* run_multi_source_scraping: the list of this platform is exhausted
MultiPlatformListEnd ==
    /\ scraper = "Multi" /\ pc = "platform"
    /\ shops_data' = shops_data
    /\ IF Multi_target_reached(shops_data, target_shops)
       THEN pc' = "save" /\ i' = i /\ j' = j
       ELSE MultiAdvance
    /\ UNCHANGED << ConfigVars, StatVars, AuxVars, RunVars, n, offers, offered, last_offer, LocVars, ScrollVars,
                    ThreadVars >>

\* run_multi_source_scraping: the platform's try block raises; "except: continue"
MultiPlatformFails ==
    /\ scraper = "Multi" /\ pc = "platform"
    /\ shops_data' = shops_data
    /\ raised' = TRUE
    /\ MultiAdvance
    /\ UNCHANGED << ConfigVars, StatVars, AuxVars, n, offers, offered, last_offer, LocVars, ScrollVars,
                    ThreadVars, driver, quits, saves >>

\* run_multi_source_scraping: save_results and the platform statistics, then return
MultiSave ==
    /\ scraper = "Multi" /\ pc = "save"
    /\ pc' = "done"
    /\ IF shops_data = << >>
       THEN UNCHANGED StatVars
       ELSE \E saved \in BOOLEAN :
               IF saved
               THEN /\ source_stats' = count_sources(shops_data, 1, EmptyDict)
                    /\ stats_reported' = TRUE
               ELSE \* save_results raises: "except Exception", no statistics
                    UNCHANGED StatVars
    /\ UNCHANGED << ConfigVars, AuxVars, RunVars, shops_data, i, j, n, offers, offered, last_offer,
                    LocVars, ScrollVars, ThreadVars >>

MultiNext ==
    \/ \E shop \in MultiResults(MultiPlatforms[j + 1]) : MultiPlatformNextShop(shop)
    \/ MultiPlatformListEnd
    \/ MultiPlatformFails
    \/ MultiSave

----------------------------------------------------------------------------
(* KaohsiungPrecisionScraper *)

\* Result links a Google Maps page can show: the name the link yields
\* (aria-label, text, parent or href, whichever extract_shop_info gets first)
\* and its href.  extract_current_shops keeps only links whose href holds
\* '/maps/place/' or 'place_id=', so no href is empty.
MapsLabels == { <<"a", "b">>, <<"A", "b", " ">>, <<"b", "a">>, <<"a">> }
MapsHrefs == { <<"u">>, <<"v">> }
MapsLinks == [label : MapsLabels, href : MapsHrefs]

\* extract_shop_info: the record returned for a link, NoShop standing for None.
\* detail_ok is the environment's part: the name is beauty related, no call
\* raised, and is_kaohsiung_address accepted the address.
Precision_extract_shop_info(link, detail_ok) ==
    IF Len(strip(link.label)) < 2 \/ ~detail_ok
    THEN NoShop
    ELSE ShopInfo(strip(link.label), link.href, "", "", 0)

\* Variant of is_new_shop's test that looks at the name only
Precision_same_name(existing_shop, shop_info) ==
    lower(strip(existing_shop.name)) = lower(strip(shop_info.name))

\* is_new_shop: the test of one existing record
Precision_same_shop(existing_shop, shop_info) ==
    \/ lower(strip(existing_shop.name)) = lower(strip(shop_info.name))
    \/ /\ strip(shop_info.google_maps_url) # EmptyStr
       /\ strip(existing_shop.google_maps_url) # EmptyStr
       /\ strip(shop_info.google_maps_url) = strip(existing_shop.google_maps_url)

\* is_new_shop
Precision_is_new_shop(data, shop_info) ==
    /\ shop_info.name # EmptyStr
    /\ \A k \in 1..Len(data) : ~Precision_same_shop(data[k], shop_info)

\* extract_current_shops: "if shop_info and self.is_new_shop(shop_info): append"
Precision_admit(data, shop_info) ==
    IF shop_info # NoShop /\ Precision_is_new_shop(data, shop_info)
    THEN Append(data, shop_info)
    ELSE data

\* Variant of the target test that waits for one record more
Precision_target_exceeded(data, target) == Len(data) > target

\* "if len(self.shops_data) >= self.target_shops"
Precision_target_reached(data, target) == Len(data) >= target

PrecisionResult(data, shop_info) ==
    IF shop_info = NoShop THEN "invalid"
    ELSE IF Precision_is_new_shop(data, shop_info) THEN "admitted" ELSE "duplicate"

\* run_precision_scraping: after the shop-type loop of landmark i (line 1646)
PrecisionLandmarkEnd(data) ==
    /\ j' = 0
    /\ IF Precision_target_reached(data, target_shops) \/ i + 1 >= NumLandmarks
       THEN pc' = "save" /\ i' = i
       ELSE pc' = "landmark" /\ i' = i + 1

\* Variant of the shop-type loop that does not advance
PrecisionNextShopType_again(data) == pc' = "shop_type" /\ j' = j /\ i' = i

\* run_precision_scraping: "continue" of the shop-type loop, or its normal end
PrecisionNextShopType(data) ==
    IF j + 1 < NumShopTypes
    THEN pc' = "shop_type" /\ j' = j + 1 /\ i' = i
    ELSE PrecisionLandmarkEnd(data)

\* run_precision_scraping: scroll_and_extract returned r (lines 1616-1637)
PrecisionReturn(r, data) ==
    /\ should_continue' = r
    /\ ret_pc' = "none"
    /\ IF ~r THEN PrecisionLandmarkEnd(data) ELSE PrecisionNextShopType(data)

\* scroll_and_extract: the while condition with counters sc and ncc; a new
\* round starts with a call of extract_current_shops, or the method returns
PrecisionWhile(sc, ncc, data) ==
    IF sc < max_scrolls /\ ncc < max_no_change
    THEN /\ scroll_count' = sc + 1
         /\ pc' = "extract" /\ ret_pc' = "round"
         /\ UNCHANGED << i, j, should_continue >>
    ELSE /\ scroll_count' = sc
         /\ PrecisionReturn(~Precision_target_reached(data, target_shops), data)

\* run_precision_scraping: set_location(landmark), which may fail
PrecisionSetLocation ==
    /\ scraper = "Precision" /\ pc = "landmark"
    /\ \E located \in BOOLEAN :
          IF located
          THEN pc' = "shop_type" /\ j' = 0 /\ i' = i
          ELSE \* continue: the next landmark, without the check of line 1646
               /\ j' = j
               /\ IF i + 1 >= NumLandmarks
                  THEN pc' = "save" /\ i' = i
                  ELSE pc' = pc /\ i' = i + 1
    /\ UNCHANGED << ConfigVars, StatVars, AuxVars, RunVars, shops_data, n, offers, offered, last_offer, LocVars,
                    ScrollVars, ThreadVars >>

\* run_precision_scraping: one turn of the shop-type loop up to the first
\* extract_current_shops of scroll_and_extract
PrecisionSearch ==
    /\ scraper = "Precision" /\ pc = "shop_type"
    /\ IF Precision_target_reached(shops_data, target_shops)
       THEN \* line 1604: break
            /\ PrecisionLandmarkEnd(shops_data)
            /\ UNCHANGED ScrollVars
       ELSE \E searched \in BOOLEAN :
            IF ~searched
            THEN \* search_nearby_shops failed: continue
                 /\ PrecisionNextShopType(shops_data)
                 /\ UNCHANGED ScrollVars
            ELSE \* scroll_and_extract starts
                 /\ last_count' = 0 /\ no_change_count' = 0 /\ scroll_count' = 0
                 /\ seen_hrefs' = {} /\ new_shops' = 0
                 /\ pc' = "extract" /\ ret_pc' = "initial"
                 /\ UNCHANGED << i, j, should_continue >>
    /\ n' = 0
    /\ UNCHANGED << ConfigVars, StatVars, AuxVars, RunVars, shops_data, offers, offered, last_offer, LocVars,
                    ThreadVars >>

\* extract_current_shops: one turn of "for link in unique_links[:max_process_per_round]"
PrecisionExtractLink ==
    /\ scraper = "Precision" /\ pc = "extract"
    /\ n < MaxProcess
    /\ offers < MaxOffers
    /\ \E link \in MapsLinks, detail_ok \in BOOLEAN :
          LET shop_info == Precision_extract_shop_info(link, detail_ok)
              data == Precision_admit(shops_data, shop_info)
          IN /\ link.href \notin seen_hrefs
             /\ seen_hrefs' = seen_hrefs \cup {link.href}
             /\ shops_data' = data
             /\ last_offer' = Offer(shop_info, shops_data,
                                    PrecisionResult(shops_data, shop_info))
             \* line 1259: break after an admission that reaches the target
             /\ n' = IF data # shops_data /\ Precision_target_reached(data, target_shops)
                     THEN MaxProcess ELSE n + 1
             /\ new_shops' = IF data # shops_data THEN new_shops + 1 ELSE new_shops
    /\ offers' = offers + 1
    /\ UNCHANGED << ConfigVars, StatVars, AuxVars, RunVars, pc, i, j, offered, LocVars, scroll_count,
                    no_change_count, last_count, ret_pc, should_continue, ThreadVars >>

\* extract_current_shops returns; scroll_and_extract goes on from the call
PrecisionExtractEnd ==
    /\ scraper = "Precision" /\ pc = "extract"
    /\ n' = 0
    /\ seen_hrefs' = {} /\ new_shops' = 0
    /\ IF ret_pc = "initial"
       THEN /\ UNCHANGED << no_change_count, last_count >>
            /\ PrecisionWhile(scroll_count, no_change_count, shops_data)
       ELSE LET current_count == Len(shops_data)
                ncc == IF current_count = last_count THEN no_change_count + 1 ELSE 0
            IN /\ no_change_count' = ncc
               /\ last_count' = IF current_count = last_count THEN last_count
                                ELSE current_count
               /\ IF \/ Precision_target_reached(shops_data, target_shops)
                     \/ ncc >= max_no_change
                  THEN \* the breaks of lines 1030 and 1034
                       /\ scroll_count' = scroll_count
                       /\ PrecisionReturn(~Precision_target_reached(shops_data, target_shops),
                                          shops_data)
                  ELSE PrecisionWhile(scroll_count, ncc, shops_data)
    /\ UNCHANGED << ConfigVars, StatVars, AuxVars, RunVars, shops_data, offers, offered, last_offer, LocVars,
                    ThreadVars >>

\* scroll_and_extract: a browser call of its try block raises; "return False"
PrecisionScrollRaises ==
    /\ scraper = "Precision" /\ pc = "extract"
    /\ n' = 0
    /\ seen_hrefs' = {} /\ new_shops' = 0
    /\ PrecisionReturn(FALSE, shops_data)
    /\ UNCHANGED << ConfigVars, StatVars, AuxVars, RunVars, shops_data, offers, offered, last_offer, LocVars,
                    scroll_count, no_change_count, last_count, ThreadVars >>

\* run_precision_scraping: save_to_excel of the final result "if
\* self.shops_data", then "return True" (the temporary save of every fifth
\* landmark is out of reach of NumLandmarks)
PrecisionSave ==
    /\ scraper = "Precision" /\ pc = "save"
    /\ saves' = IF shops_data # << >>
                THEN Append(saves, [kind |-> "final", shops |-> shops_data])
                ELSE saves
    /\ pc' = "finally"
    /\ UNCHANGED << ConfigVars, StatVars, AuxVars, shops_data, i, j, n, offers, offered, last_offer,
                    LocVars, ScrollVars, ThreadVars, driver, quits, raised >>

\* run_precision_scraping: setup_driver and open_google_maps; "return False"
\* when one of them fails
PrecisionSetup ==
    /\ scraper = "Precision" /\ pc = "setup"
    /\ \E set_up \in BOOLEAN, opened \in BOOLEAN :
          /\ driver' = set_up
          /\ pc' = IF set_up /\ opened THEN "landmark" ELSE "finally"
    /\ UNCHANGED << ConfigVars, StatVars, AuxVars, shops_data, i, j, n, offers, offered, last_offer,
                    LocVars, ScrollVars, ThreadVars, quits, saves, raised >>

\* Variant of the handler that saves nothing
Precision_emergency_save_skipped(data, sv) == sv

\* run_precision_scraping, "except Exception": "if self.shops_data" the
\* records are passed to save_to_excel
Precision_emergency_save(data, sv) ==
    IF data # << >>
    THEN Append(sv, [kind |-> "emergency", shops |-> data])
    ELSE sv

\* run_precision_scraping: a statement of the loops or of the final report
\* raises; the handler runs and returns False
PrecisionRaises ==
    /\ scraper = "Precision" /\ pc \in {"landmark", "shop_type", "save"}
    /\ raised' = TRUE
    /\ saves' = Precision_emergency_save(shops_data, saves)
    /\ pc' = "finally"
    /\ UNCHANGED << ConfigVars, StatVars, AuxVars, shops_data, i, j, n, offers, offered, last_offer,
                    LocVars, ScrollVars, ThreadVars, driver, quits >>

\* run_precision_scraping, "finally": "if self.driver" it is quit, whatever
\* quit() does; the method returns
PrecisionFinally ==
    /\ scraper = "Precision" /\ pc = "finally"
    /\ quits' = IF driver THEN quits + 1 ELSE quits
    /\ pc' = "done"
    /\ UNCHANGED << ConfigVars, StatVars, AuxVars, shops_data, i, j, n, offers, offered, last_offer,
                    LocVars, ScrollVars, ThreadVars, driver, saves, raised >>

PrecisionNext ==
    \/ PrecisionSetup
    \/ PrecisionSetLocation
    \/ PrecisionSearch
    \/ PrecisionExtractLink
    \/ PrecisionExtractEnd
    \/ PrecisionScrollRaises
    \/ PrecisionSave
    \/ PrecisionRaises
    \/ PrecisionFinally

----------------------------------------------------------------------------
(* GoogleMapsDetailedScraper *)

\* Result links of a page, as for MapsLinks.  No label carries one of the
\* prefixes extract_shop_info_detailed removes or one of its placeholder words.
DetailedLabels == { <<"a", "b", "c", "a">>, <<"a", "b">>, <<"b", "a", " ">> }
DetailedLinks == [label : DetailedLabels, href : MapsHrefs]

\* extract_current_shops_with_details: temp_shop of the quick duplicate check
Detailed_temp_shop(link, location) == ShopInfo(strip(link.label), link.href, "", "", location)

\* extract_shop_info_detailed: prefixes_to_remove; a Chinese character is
\* written as one character named by its reading
prefixes_to_remove ==
    << <<"zh:sou", "zh:xun">>, <<"zh:qian", "zh:wang">>, <<"zh:lu", "zh:xian">>,
       <<"zh:dao", "zh:hang">>, <<"zh:ping", "zh:lun">> >>

\* extract_shop_info_detailed: invalid_keywords
invalid_keywords ==
    { <<"u", "n", "d", "e", "f", "i", "n", "e", "d">>, <<"n", "u", "l", "l">>,
      <<"zh:zai", "zh:ru", "zh:zhong">>, <<"l", "o", "a", "d", "i", "n", "g">>,
      <<".", ".", ".">> }

\* extract_shop_info_detailed: "for prefix in prefixes_to_remove: if
\* name.startswith(prefix): name = name[len(prefix):].strip()", from prefix k on
RECURSIVE remove_prefixes(_, _)
remove_prefixes(name, k) ==
    IF k > Len(prefixes_to_remove) THEN name
    ELSE LET prefix == prefixes_to_remove[k] IN
         IF startswith(name, prefix)
         THEN remove_prefixes(strip(SubSeq(name, Len(prefix) + 1, Len(name))), k + 1)
         ELSE remove_prefixes(name, k + 1)

\* A name the method keeps, and None
NameOk(name) == [ok |-> TRUE, name |-> name]
NameRejected == [ok |-> FALSE, name |-> EmptyStr]

\* Variant of the name cleaning that asks for more than 2 characters
Detailed_normalize_name_longer(raw) ==
    IF strip(raw) = EmptyStr THEN NameRejected
    ELSE LET name == remove_prefixes(strip(raw), 1) IN
         IF Len(name) <= 2 THEN NameRejected
         ELSE IF \E keyword \in invalid_keywords : contains(lower(name), keyword)
              THEN NameRejected
              ELSE NameOk(name)

\* extract_shop_info_detailed: the name kept for the text raw the link yields
\* (every retry reads the same text and ends the same way)
Detailed_normalize_name(raw) ==
    IF strip(raw) = EmptyStr THEN NameRejected
    ELSE LET name == remove_prefixes(strip(raw), 1) IN
         IF Len(name) < 2 THEN NameRejected
         ELSE IF \E keyword \in invalid_keywords : contains(lower(name), keyword)
              THEN NameRejected
              ELSE NameOk(name)

\* extract_shop_info_detailed: the record returned for a link, NoShop standing
\* for None; detail_ok is the environment's part (no call raised)
Detailed_extract_shop_info_detailed(link, location, detail_ok) ==
    IF ~Detailed_normalize_name(link.label).ok \/ ~detail_ok
    THEN NoShop
    ELSE ShopInfo(Detailed_normalize_name(link.label).name, link.href, "", "", location)

\* is_new_shop: ''.join(c for c in name if c.isalnum())
RECURSIVE clean_name(_)
clean_name(s) ==
    IF s = << >> THEN << >>
    ELSE IF isalnum(Head(s)) THEN <<Head(s)>> \o clean_name(Tail(s))
    ELSE clean_name(Tail(s))

\* is_new_shop: the test of one record of current_location_shops
Detailed_same_here(existing_shop, shop_info) ==
    \/ lower(strip(existing_shop.name)) = lower(strip(shop_info.name))
    \/ /\ strip(shop_info.google_maps_url) # EmptyStr
       /\ strip(existing_shop.google_maps_url) # EmptyStr
       /\ strip(shop_info.google_maps_url) = strip(existing_shop.google_maps_url)

\* is_new_shop: the test of one record of shops_data of another location
Detailed_same_elsewhere(existing_shop, shop_info) ==
    \/ /\ strip(shop_info.google_maps_url) # EmptyStr
       /\ strip(existing_shop.google_maps_url) # EmptyStr
       /\ strip(shop_info.google_maps_url) = strip(existing_shop.google_maps_url)
    \/ LET clean == clean_name(lower(strip(shop_info.name)))
           clean_existing == clean_name(lower(strip(existing_shop.name)))
       IN clean # << >> /\ clean_existing # << >> /\ clean = clean_existing
          /\ Len(clean) > 3

\* is_new_shop
Detailed_is_new_shop(data, here, location, shop_info) ==
    /\ shop_info.name # EmptyStr
    /\ \A k \in 1..Len(here) : ~Detailed_same_here(here[k], shop_info)
    /\ \A k \in 1..Len(data) :
          \/ data[k].search_location = location
          \/ ~Detailed_same_elsewhere(data[k], shop_info)

\* "if len(self.shops_data) >= self.target_shops"
Detailed_target_reached(data, target) == Len(data) >= target

\* Variant of the automatic stop that waits for one record more
Detailed_auto_stop_exceeded(data) == Len(data) > AutoStopShops

\* run_detailed_scraping: "if len(self.shops_data) >= 600"
Detailed_auto_stop(data) == Len(data) >= AutoStopShops

\* extract_current_shops_with_details: what one link does to the two lists:
\* the quick check, the extraction, the second check, the appends
DetailedLinkResult(data, here, location, link, detail_ok) ==
    LET shop_info == Detailed_extract_shop_info_detailed(link, location, detail_ok) IN
    IF ~Detailed_is_new_shop(data, here, location, Detailed_temp_shop(link, location))
    THEN "duplicate"
    ELSE IF shop_info = NoShop THEN "invalid"
    ELSE IF Detailed_is_new_shop(data, here, location, shop_info) THEN "admitted"
    ELSE "duplicate"

\* run_detailed_scraping: after the shop-type loop of location i (line 1695)
DetailedLocationEnd(data) ==
    /\ j' = 0
    /\ IF Detailed_auto_stop(data) \/ i + 1 >= NumLandmarks
       THEN pc' = "save" /\ i' = i
       ELSE pc' = "location" /\ i' = i + 1

\* run_detailed_scraping: "continue" of the shop-type loop, or its normal end
DetailedNextShopType(data) ==
    IF j + 1 < NumShopTypes
    THEN pc' = "shop_type" /\ j' = j + 1 /\ i' = i
    ELSE DetailedLocationEnd(data)

\* run_detailed_scraping: scroll_and_extract_with_details returned r (lines 1671-1686)
DetailedReturn(r, data) ==
    /\ should_continue' = r
    /\ ret_pc' = "none"
    /\ IF ~r \/ Detailed_auto_stop(data)
       THEN DetailedLocationEnd(data)
       ELSE DetailedNextShopType(data)

\* scroll_and_extract_with_details: the while condition with counters sc and
\* ncc; a new round starts with the first extract call, or the method returns
DetailedWhile(sc, ncc, data) ==
    IF sc < max_scrolls /\ ncc < max_no_change
    THEN /\ scroll_count' = sc + 1
         /\ pc' = "extract" /\ ret_pc' = "pre"
         /\ UNCHANGED << i, j, should_continue >>
    ELSE /\ scroll_count' = sc
         /\ DetailedReturn(~Detailed_target_reached(data, target_shops), data)

\* set_location(location): the reset of current_location_shops, then the
\* browser calls, which may fail
DetailedSetLocation ==
    /\ scraper = "Detailed" /\ pc = "location"
    /\ current_location_shops' =
          IF current_location # i + 1 THEN << >> ELSE current_location_shops
    /\ \E located \in BOOLEAN :
          IF located
          THEN /\ current_location' = i + 1
               /\ pc' = "shop_type" /\ j' = 0 /\ i' = i
          ELSE \* continue: the next location, without the check of line 1695
               /\ current_location' = current_location
               /\ j' = j
               /\ IF i + 1 >= NumLandmarks
                  THEN pc' = "save" /\ i' = i
                  ELSE pc' = pc /\ i' = i + 1
    /\ UNCHANGED << ConfigVars, StatVars, AuxVars, RunVars, shops_data, n, offers, offered, last_offer,
                    ScrollVars, ThreadVars >>

\* run_detailed_scraping: one turn of the shop-type loop up to the first
\* extract call of scroll_and_extract_with_details
DetailedSearch ==
    /\ scraper = "Detailed" /\ pc = "shop_type"
    /\ IF Detailed_auto_stop(shops_data)
       THEN \* line 1662: break
            /\ DetailedLocationEnd(shops_data)
            /\ UNCHANGED ScrollVars
       ELSE \E searched \in BOOLEAN :
            IF ~searched
            THEN \* search_nearby_shops_with_radius failed: continue
                 /\ DetailedNextShopType(shops_data)
                 /\ UNCHANGED ScrollVars
            ELSE \* scroll_and_extract_with_details starts its first round
                 /\ last_count' = 0 /\ no_change_count' = 0 /\ scroll_count' = 1
                 /\ seen_hrefs' = {} /\ new_shops' = 0
                 /\ pc' = "extract" /\ ret_pc' = "pre"
                 /\ UNCHANGED << i, j, should_continue >>
    /\ n' = 0
    /\ UNCHANGED << ConfigVars, StatVars, AuxVars, RunVars, shops_data, offers, offered, last_offer, LocVars,
                    ThreadVars >>

\* extract_current_shops_with_details: one turn of "for link in shop_links[:max_process]"
DetailedExtractLink ==
    /\ scraper = "Detailed" /\ pc = "extract"
    /\ n < MaxProcess
    /\ offers < MaxOffers
    /\ \E link \in DetailedLinks, detail_ok \in BOOLEAN :
          LET result == DetailedLinkResult(shops_data, current_location_shops,
                                           current_location, link, detail_ok)
              shop_info == Detailed_extract_shop_info_detailed(link, current_location,
                                                               detail_ok)
              admitted == result = "admitted"
              data == IF admitted THEN Append(shops_data, shop_info) ELSE shops_data
          IN /\ link.href \notin seen_hrefs
             /\ seen_hrefs' = seen_hrefs \cup {link.href}
             /\ shops_data' = data
             /\ current_location_shops' =
                   IF admitted THEN Append(current_location_shops, shop_info)
                   ELSE current_location_shops
             /\ last_offer' = Offer(Detailed_temp_shop(link, current_location),
                                    shops_data, result)
             \* line 899: break once an admission reaches the target; the
             \* skipped and the failed link "continue"
             /\ n' = IF admitted /\ Detailed_target_reached(data, target_shops)
                     THEN MaxProcess ELSE n + 1
             /\ new_shops' = IF admitted THEN new_shops + 1 ELSE new_shops
    /\ offers' = offers + 1
    /\ UNCHANGED << ConfigVars, StatVars, AuxVars, RunVars, pc, i, j, offered, current_location, scroll_count,
                    no_change_count, last_count, ret_pc, should_continue, ThreadVars >>

\* extract_current_shops_with_details returns; scroll_and_extract_with_details
\* goes on from the call
DetailedExtractEnd ==
    /\ scraper = "Detailed" /\ pc = "extract"
    /\ n' = 0
    /\ seen_hrefs' = {} /\ new_shops' = 0
    /\ IF ret_pc = "pre"
       THEN LET current_count == Len(current_location_shops)
                ncc == IF current_count = last_count THEN no_change_count + 1 ELSE 0
            IN /\ no_change_count' = ncc
               /\ last_count' = IF current_count = last_count THEN last_count
                                ELSE current_count
               /\ scroll_count' = scroll_count
               /\ IF ncc >= max_no_change \/ (new_shops < 1 /\ scroll_count > 3)
                  THEN \* the breaks of lines 746 and 751
                       DetailedReturn(~Detailed_target_reached(shops_data, target_shops),
                                      shops_data)
                  ELSE \* scroll, then the second extract call of the round
                       /\ pc' = "extract" /\ ret_pc' = "post"
                       /\ UNCHANGED << i, j, should_continue >>
       ELSE /\ UNCHANGED << no_change_count, last_count >>
            /\ IF Detailed_target_reached(shops_data, target_shops)
               THEN \* line 782: break
                    /\ scroll_count' = scroll_count
                    /\ DetailedReturn(FALSE, shops_data)
               ELSE DetailedWhile(scroll_count, no_change_count, shops_data)
    /\ UNCHANGED << ConfigVars, StatVars, AuxVars, RunVars, shops_data, offers, offered, last_offer, LocVars,
                    ThreadVars >>

\* scroll_and_extract_with_details: no container, or a call of its try block
\* raises; "return False"
DetailedScrollRaises ==
    /\ scraper = "Detailed" /\ pc = "extract"
    /\ n' = 0
    /\ seen_hrefs' = {} /\ new_shops' = 0
    /\ DetailedReturn(FALSE, shops_data)
    /\ UNCHANGED << ConfigVars, StatVars, AuxVars, RunVars, shops_data, offers, offered, last_offer, LocVars,
                    scroll_count, no_change_count, last_count, ThreadVars >>

\* run_detailed_scraping: save_to_excel of the final result, then return
DetailedSave ==
    /\ scraper = "Detailed" /\ pc = "save"
    /\ pc' = "done"
    /\ UNCHANGED << ConfigVars, StatVars, AuxVars, RunVars, shops_data, i, j, n, offers, offered, last_offer,
                    LocVars, ScrollVars, ThreadVars >>

DetailedNext ==
    \/ DetailedSetLocation
    \/ DetailedSearch
    \/ DetailedExtractLink
    \/ DetailedExtractEnd
    \/ DetailedScrollRaises
    \/ DetailedSave

----------------------------------------------------------------------------
(* GoogleMapsTurboFirefoxScraper *)

max_shops_per_search == 120  \* self.max_shops_per_search
RecentWindow == 50           \* extract_current_shops_turbo: self.shops_data[-50:]

\* seq[-k:]
LastOf(seq, k) == IF Len(seq) <= k THEN seq ELSE SubSeq(seq, Len(seq) - k + 1, Len(seq))

\* extract_shop_info_detailed: the record returned for a link, NoShop standing
\* for None; in_kaohsiung is the outcome of is_shop_in_kaohsiung
Turbo_extract_shop_info_detailed(link, location, in_kaohsiung) ==
    IF Len(strip(link.label)) < 2 \/ ~in_kaohsiung
    THEN NoShop
    ELSE ShopInfo(strip(link.label), link.href, "", "", location)

\* extract_current_shops_turbo: the quick check against the most recent records
Turbo_recent_name(data, link) ==
    /\ strip(link.label) # EmptyStr
    /\ \E k \in 1..Len(LastOf(data, RecentWindow)) :
          lower(strip(link.label)) = lower(LastOf(data, RecentWindow)[k].name)

\* Variant of is_new_shop_fast's test that looks at the name only
Turbo_same_name(existing_shop, shop_info) ==
    lower(strip(existing_shop.name)) = lower(strip(shop_info.name))

\* is_new_shop_fast: the test of one accumulated record
Turbo_same_shop(existing_shop, shop_info) ==
    \/ lower(strip(existing_shop.name)) = lower(strip(shop_info.name))
    \/ /\ strip(shop_info.google_maps_url) # EmptyStr
       /\ strip(existing_shop.google_maps_url) # EmptyStr
       /\ strip(shop_info.google_maps_url) = strip(existing_shop.google_maps_url)

\* is_new_shop_fast
Turbo_is_new_shop_fast(data, shop_info) ==
    /\ shop_info.name # EmptyStr
    /\ \A k \in 1..Len(data) : ~Turbo_same_shop(data[k], shop_info)

\* "if len(self.shops_data) >= self.target_shops"
Turbo_target_reached(data, target) == Len(data) >= target

\* extract_current_shops_turbo: what one link comes to
TurboLinkResult(data, link, location, in_kaohsiung) ==
    LET shop_info == Turbo_extract_shop_info_detailed(link, location, in_kaohsiung) IN
    IF Turbo_recent_name(data, link) THEN "duplicate"
    ELSE IF shop_info = NoShop THEN "invalid"
    ELSE IF Turbo_is_new_shop_fast(data, shop_info) THEN "admitted"
    ELSE "duplicate"

\* run_grid_search: the next grid, or the report after the last one
TurboNextGrid ==
    /\ j' = 0
    /\ IF i + 1 >= NumLandmarks
       THEN pc' = "save" /\ i' = i
       ELSE pc' = "grid" /\ i' = i + 1

\* run_grid_search: the next shop type of the grid, or the end of the grid
TurboNextShopType ==
    IF j + 1 < NumShopTypes
    THEN pc' = "shop_type" /\ j' = j + 1 /\ i' = i
    ELSE TurboNextGrid

\* scroll_and_extract_turbo returned r; run_grid_search ignores the value
TurboReturn(r) ==
    /\ should_continue' = r
    /\ ret_pc' = "none"
    /\ TurboNextShopType

\* run_grid_search: one turn of "for grid_num, grid in enumerate(grids, 1)"
TurboSetLocation ==
    /\ scraper = "Turbo" /\ pc = "grid"
    /\ IF Turbo_target_reached(shops_data, target_shops)
       THEN \* break
            /\ pc' = "save"
            /\ UNCHANGED << i, j, LocVars >>
       ELSE /\ current_location_shops' =
                  IF current_location # i + 1 THEN << >> ELSE current_location_shops
            /\ \E located \in BOOLEAN :
                  IF located
                  THEN /\ current_location' = i + 1
                       /\ pc' = "shop_type" /\ j' = 0 /\ i' = i
                  ELSE /\ current_location' = current_location
                       /\ TurboNextGrid
    /\ UNCHANGED << ConfigVars, StatVars, AuxVars, RunVars, shops_data, n, offers, offered, last_offer,
                    ScrollVars, ThreadVars >>

\* run_grid_search: one turn of "for shop_type in effective_types" up to the
\* extract call of the first scroll round
TurboSearch ==
    /\ scraper = "Turbo" /\ pc = "shop_type"
    /\ IF Turbo_target_reached(shops_data, target_shops)
       THEN \* break
            /\ TurboNextGrid
            /\ UNCHANGED ScrollVars
       ELSE \E searched \in BOOLEAN :
            IF ~searched
            THEN \* search_nearby_shops_turbo failed: continue
                 /\ TurboNextShopType
                 /\ UNCHANGED ScrollVars
            ELSE /\ last_count' = 0 /\ no_change_count' = 0 /\ scroll_count' = 1
                 /\ seen_hrefs' = {} /\ new_shops' = 0
                 /\ pc' = "extract" /\ ret_pc' = "round"
                 /\ UNCHANGED << i, j, should_continue >>
    /\ n' = 0
    /\ UNCHANGED << ConfigVars, StatVars, AuxVars, RunVars, shops_data, offers, offered, last_offer, LocVars,
                    ThreadVars >>

\* extract_current_shops_turbo: one turn of "for i, link in enumerate(shop_links[:max_process])"
TurboExtractLink ==
    /\ scraper = "Turbo" /\ pc = "extract"
    /\ n < MaxProcess
    /\ offers < MaxOffers
    /\ \E link \in MapsLinks, in_kaohsiung \in BOOLEAN :
          LET result == TurboLinkResult(shops_data, link, current_location, in_kaohsiung)
              shop_info == Turbo_extract_shop_info_detailed(link, current_location,
                                                            in_kaohsiung)
              admitted == result = "admitted"
              data == IF admitted THEN Append(shops_data, shop_info) ELSE shops_data
          IN /\ link.href \notin seen_hrefs
             /\ seen_hrefs' = seen_hrefs \cup {link.href}
             /\ shops_data' = data
             /\ current_location_shops' =
                   IF admitted THEN Append(current_location_shops, shop_info)
                   ELSE current_location_shops
             /\ last_offer' = Offer(ShopInfo(strip(link.label), link.href, "", "",
                                             current_location),
                                    shops_data, result)
             /\ new_shops' = IF admitted THEN new_shops + 1 ELSE new_shops
             \* the breaks after an admission
             /\ n' = IF admitted /\ (\/ Turbo_target_reached(data, target_shops)
                                     \/ new_shops + 1 >= max_shops_per_search)
                     THEN MaxProcess ELSE n + 1
    /\ offers' = offers + 1
    /\ UNCHANGED << ConfigVars, StatVars, AuxVars, RunVars, pc, i, j, offered, current_location, scroll_count,
                    no_change_count, last_count, ret_pc, should_continue, ThreadVars >>

\* extract_current_shops_turbo returns; scroll_and_extract_turbo finishes the
\* round and tests the while condition
TurboExtractEnd ==
    /\ scraper = "Turbo" /\ pc = "extract"
    /\ n' = 0
    /\ seen_hrefs' = {} /\ new_shops' = 0
    /\ LET current_count == Len(current_location_shops)
           ncc == IF current_count = last_count THEN no_change_count + 1 ELSE 0
       IN /\ no_change_count' = ncc
          /\ last_count' = IF current_count = last_count THEN last_count
                           ELSE current_count
          /\ IF \/ Turbo_target_reached(shops_data, target_shops)
                \/ new_shops >= max_shops_per_search
                \/ ~(scroll_count < max_scrolls /\ ncc < max_no_change)
             THEN /\ scroll_count' = scroll_count
                  /\ TurboReturn(~Turbo_target_reached(shops_data, target_shops))
             ELSE /\ scroll_count' = scroll_count + 1
                  /\ UNCHANGED << pc, ret_pc, i, j, should_continue >>
    /\ UNCHANGED << ConfigVars, StatVars, AuxVars, RunVars, shops_data, offers, offered, last_offer, LocVars,
                    ThreadVars >>

\* scroll_and_extract_turbo: no container, or a call of its try block raises
TurboScrollRaises ==
    /\ scraper = "Turbo" /\ pc = "extract"
    /\ n' = 0
    /\ seen_hrefs' = {} /\ new_shops' = 0
    /\ TurboReturn(FALSE)
    /\ UNCHANGED << ConfigVars, StatVars, AuxVars, RunVars, shops_data, offers, offered, last_offer, LocVars,
                    scroll_count, no_change_count, last_count, ThreadVars >>

\* run_grid_search: generate_grid_coverage_report, then return
TurboSave ==
    /\ scraper = "Turbo" /\ pc = "save"
    /\ pc' = "done"
    /\ UNCHANGED << ConfigVars, StatVars, AuxVars, RunVars, shops_data, i, j, n, offers, offered, last_offer,
                    LocVars, ScrollVars, ThreadVars >>

TurboNext ==
    \/ TurboSetLocation
    \/ TurboSearch
    \/ TurboExtractLink
    \/ TurboExtractEnd
    \/ TurboScrollRaises
    \/ TurboSave

----------------------------------------------------------------------------
(* Concurrent callers of add_shop_data. Each thread runs the step of the    *)
(* run loops, "if len(self.shops_data) >= self.target_shops: break" followed *)
(* by "self.add_shop_data(shop)", on its own candidates; data_lock is the    *)
(* only synchronisation the classes provide.                                *)

Threads == {"t1", "t2"}

\* Candidates a thread of the given class holds
ThreadShops(s) ==
    IF s = "FastThreads" THEN FastSearchResults ELSE MultiResults(MultiPlatforms[1])

\* add_shop_data of the class: the duplicate loop
Thread_is_duplicate(s, data, shop_info) ==
    IF s = "FastThreads" THEN Fast_is_duplicate(data, shop_info)
    ELSE Multi_is_duplicate(data, shop_info)

\* the run loop's cap test of the class
Thread_target_reached(s, data, target) ==
    IF s = "FastThreads" THEN Fast_target_reached(data, target)
    ELSE Multi_target_reached(data, target)

\* Variant of the lock that never excludes
LockFree_always == TRUE

\* "with self.data_lock:" can be entered
LockFree == data_lock = NoThread

\* The run loop's test before the call: "if len(self.shops_data) >= self.target_shops"
ThreadCheck(t, shop) ==
    /\ scraper \in {"FastThreads", "MultiThreads"}
    /\ tpc[t] = "idle"
    /\ offers < MaxOffers
    /\ offers' = offers + 1
    /\ tshop' = [tshop EXCEPT ![t] = shop]
    /\ IF Thread_target_reached(scraper, shops_data, target_shops)
       THEN /\ tpc' = [tpc EXCEPT ![t] = "stopped"]
            /\ last_offer' = Offer(shop, shops_data, "cap")
       ELSE /\ tpc' = [tpc EXCEPT ![t] = "call"]
            /\ last_offer' = last_offer
    /\ UNCHANGED << ConfigVars, StatVars, AuxVars, RunVars, shops_data, pc, i, j, n, offered, LocVars, ScrollVars,
                    data_lock >>

\* add_shop_data: "with self.data_lock:" acquires the lock
ThreadAcquire(t) ==
    /\ scraper \in {"FastThreads", "MultiThreads"}
    /\ tpc[t] = "call"
    /\ LockFree
    /\ data_lock' = t
    /\ tpc' = [tpc EXCEPT ![t] = "scan"]
    /\ UNCHANGED << ConfigVars, StatVars, AuxVars, RunVars, shops_data, pc, i, j, n, offers, offered, last_offer,
                    LocVars, ScrollVars, tshop >>

\* add_shop_data: the duplicate loop; "return False" releases the lock
ThreadScan(t) ==
    /\ scraper \in {"FastThreads", "MultiThreads"}
    /\ tpc[t] = "scan"
    /\ IF Thread_is_duplicate(scraper, shops_data, tshop[t])
       THEN /\ tpc' = [tpc EXCEPT ![t] = "idle"]
            /\ data_lock' = IF data_lock = t THEN NoThread ELSE data_lock
            /\ last_offer' = Offer(tshop[t], shops_data, "duplicate")
       ELSE /\ tpc' = [tpc EXCEPT ![t] = "append"]
            /\ UNCHANGED << data_lock, last_offer >>
    /\ UNCHANGED << ConfigVars, StatVars, AuxVars, RunVars, shops_data, pc, i, j, n, offers, offered, LocVars,
                    ScrollVars, tshop >>

\* add_shop_data: "self.shops_data.append(shop_info)", "return True" releases the lock
ThreadAppend(t) ==
    /\ scraper \in {"FastThreads", "MultiThreads"}
    /\ tpc[t] = "append"
    /\ shops_data' = Append(shops_data, tshop[t])
    /\ last_offer' = Offer(tshop[t], shops_data, "admitted")
    /\ tpc' = [tpc EXCEPT ![t] = "idle"]
    /\ data_lock' = IF data_lock = t THEN NoThread ELSE data_lock
    /\ UNCHANGED << ConfigVars, StatVars, AuxVars, RunVars, pc, i, j, n, offers, offered, LocVars, ScrollVars,
                    tshop >>

ThreadsNext ==
    \E t \in Threads :
        \/ \E shop \in ThreadShops(scraper) : ThreadCheck(t, shop)
        \/ ThreadAcquire(t)
        \/ ThreadScan(t)
        \/ ThreadAppend(t)

----------------------------------------------------------------------------
Scrapers ==
    {"Fast", "Multi", "Precision", "Detailed", "Turbo", "FastThreads", "MultiThreads"}

StartPc(s) ==
    CASE s = "Fast" -> "search"
      [] s = "Multi" -> "platform"
      [] s = "Precision" -> "setup"
      [] s = "Detailed" -> "location"
      [] s = "Turbo" -> "grid"
      [] OTHER -> "threads"

Init ==
    /\ scraper \in Scrapers
    /\ target_shops \in 1..MaxTarget
    /\ shops_data = << >>
    /\ pc = StartPc(scraper)
    /\ i = 0 /\ j = 0 /\ n = 0
    /\ offers = 0
    /\ offered = << >>
    /\ last_offer = NoOffer
    /\ current_location = 0
    /\ current_location_shops = << >>
    /\ scroll_count = 0 /\ no_change_count = 0 /\ last_count = 0
    /\ seen_hrefs = {}
    /\ ret_pc = "none"
    /\ new_shops = 0
    /\ should_continue = TRUE
    /\ tpc = [t \in Threads |-> "idle"]
    /\ tshop = [t \in Threads |-> NoShop]
    /\ data_lock = NoThread
    /\ source_stats = EmptyDict
    /\ stats_reported = FALSE
    /\ fn = "none" /\ arg = << >> /\ out = << >>
    /\ InfoInit
    /\ YunlinInit
    /\ RunInit

Next ==
    \/ FastNext
    \/ MultiNext
    \/ PrecisionNext
    \/ DetailedNext
    \/ TurboNext
    \/ ThreadsNext

Spec == Init /\ [][Next]_vars

\* run_precision_scraping on its own, every call it makes returning: a step
\* that can be taken is taken
PrecisionInit == Init /\ scraper = "Precision"
SpecPrecision == PrecisionInit /\ [][PrecisionNext]_vars /\ WF_vars(PrecisionNext)

----------------------------------------------------------------------------
(* The helper methods on their own: a behaviour applies one of them once,   *)
(* to an input drawn from a pool, and records the input and the result.     *)

\* Texts a link can yield as the shop name
NameSpaces == { << >>, <<" ">> }
NamePrefixes ==
    { << >>, prefixes_to_remove[1], prefixes_to_remove[2], prefixes_to_remove[5],
      prefixes_to_remove[1] \o prefixes_to_remove[2],
      prefixes_to_remove[2] \o prefixes_to_remove[1],
      prefixes_to_remove[1] \o <<" ">> }
NameBodies ==
    { << >>, <<"a">>, <<"a", "b">>, <<"a", "b", "c">>, <<"a", " ", "b">>,
      <<"n", "u", "l", "l">>, <<"N", "U", "L", "L">>, <<"a", "n", "u", "l", "l">>,
      <<"n", "u", "l">>, <<".", ".">>, <<".", ".", ".">>, <<"a", "b", ".", ".", ".">>,
      <<"l", "o", "a", "d", "i", "n", "g">>,
      <<"u", "n", "d", "e", "f", "i", "n", "e", "d">>,
      <<"zh:zai", "zh:ru", "zh:zhong">>, <<"zh:mei", "zh:jia">> }
RawNames ==
    { sp1 \o pre \o body \o sp2 :
        sp1 \in NameSpaces, pre \in NamePrefixes, body \in NameBodies,
        sp2 \in NameSpaces }

\* c.isdigit()
isdigit(c) == c \in {"0", "1", "2", "3", "4", "5", "6", "7", "8", "9"}

\* ''.join(filter(str.isdigit, phone_text))
RECURSIVE digits_only(_)
digits_only(s) ==
    IF s = << >> THEN << >>
    ELSE IF isdigit(Head(s)) THEN <<Head(s)>> \o digits_only(Tail(s))
    ELSE digits_only(Tail(s))

\* is_phone_like: phone_chars = set('0123456789-() ')
phone_chars == {"0", "1", "2", "3", "4", "5", "6", "7", "8", "9", "-", "(", ")", " "}

\* Variant of is_phone_like without the upper limit on the digits
Precision_is_phone_like_unlimited(phone_text) ==
    IF Len(phone_text) < 8 THEN FALSE
    ELSE IF Len(digits_only(phone_text)) < 8 THEN FALSE
    ELSE IF startswith(digits_only(phone_text), <<"0">>) THEN TRUE
    ELSE \A k \in 1..Len(phone_text) : phone_text[k] \in phone_chars

\* KaohsiungPrecisionScraper.is_phone_like
Precision_is_phone_like(phone_text) ==
    IF Len(phone_text) < 8 THEN FALSE
    ELSE IF Len(digits_only(phone_text)) < 8 \/ Len(digits_only(phone_text)) > 11
         THEN FALSE
    ELSE IF startswith(digits_only(phone_text), <<"0">>) THEN TRUE
    ELSE \A k \in 1..Len(phone_text) : phone_text[k] \in phone_chars

\* A regular expression of is_valid_phone as a sequence of items, each a set
\* of characters repeated lo..hi times; the whole text must match (^...$)
Item(chars, lo, hi) == [chars |-> chars, lo |-> lo, hi |-> hi]
Digit(lo, hi) == Item({"0", "1", "2", "3", "4", "5", "6", "7", "8", "9"}, lo, hi)
Lit(c) == Item({c}, 1, 1)

\* re.match of the items of pattern from item k on against text from pos on
RECURSIVE re_match(_, _, _, _)
re_match(pattern, k, text, pos) ==
    IF k > Len(pattern) THEN pos = Len(text) + 1
    ELSE \E c \in pattern[k].lo..pattern[k].hi :
            /\ pos + c - 1 <= Len(text)
            /\ \A d \in 0..(c - 1) : text[pos + d] \in pattern[k].chars
            /\ re_match(pattern, k + 1, text, pos + c)

\* is_valid_phone: phone_patterns
phone_patterns ==
    { << Lit("0"), Lit("9"), Digit(2, 2), Lit(" "), Digit(3, 3), Lit(" "), Digit(3, 3) >>,
      << Lit("0"), Lit("9"), Digit(8, 8) >>,
      << Lit("0"), Digit(1, 2), Lit("-"), Digit(6, 8) >>,
      << Lit("0"), Digit(9, 10) >>,
      << Digit(2, 4), Lit("-"), Digit(6, 8) >>,
      << Lit("("), Digit(2, 3), Lit(")"), Digit(6, 8) >>,
      << Lit("0"), Digit(1, 2), Lit(" "), Digit(6, 8) >>,
      << Lit("0"), Lit("9"), Digit(2, 2), Lit("-"), Digit(3, 3), Lit("-"), Digit(3, 3) >> }

\* KaohsiungPrecisionScraper.is_valid_phone
Precision_is_valid_phone(phone_text) ==
    IF Len(phone_text) < 8 THEN FALSE
    ELSE \E pattern \in phone_patterns : re_match(pattern, 1, strip(phone_text), 1)

\* extract_phone_detailed: what the element loop does with the text of one
\* element: it returns the text as the phone, or goes on to the next element
Precision_phone_of_element(element_text) ==
    LET phone_text == strip(element_text) IN
    IF /\ phone_text # EmptyStr
       /\ Len(phone_text) >= 8
       /\ \E k \in 1..Len(phone_text) : isdigit(phone_text[k])
       /\ Precision_is_phone_like(phone_text)
    THEN [accepted |-> TRUE, phone |-> phone_text,
          valid |-> Precision_is_valid_phone(phone_text)]
    ELSE [accepted |-> FALSE, phone |-> EmptyStr, valid |-> FALSE]

\* k times the character c
Repeat(c, k) == [x \in 1..k |-> c]

\* Texts an element of the detail page can hold: digit strings of
\* MinDigits..MaxDigits digits in several layouts
PhoneLeads == { <<"0">>, <<"0", "9">>, <<"8">> }
PhoneDigitStrings ==
    { lead \o Repeat("1", d - Len(lead)) : lead \in PhoneLeads, d \in MinDigits..MaxDigits }
PhoneTexts ==
    UNION { { ds,
              SubSeq(ds, 1, 2) \o <<"-">> \o SubSeq(ds, 3, Len(ds)),
              SubSeq(ds, 1, 4) \o <<" ">> \o SubSeq(ds, 5, 7) \o <<" ">> \o SubSeq(ds, 8, Len(ds)),
              <<"(">> \o SubSeq(ds, 1, 2) \o <<")">> \o SubSeq(ds, 3, Len(ds)),
              <<"+">> \o ds,
              <<" ">> \o ds \o <<" ">>,
              <<"t", ":">> \o ds } : ds \in PhoneDigitStrings }

\* KaohsiungPrecisionScraper.extract_shop_info: the keywords a name must hold
beauty_keywords ==
    { << "zh:mei", "zh:jia" >>, << "zh:mei", "zh:jie" >>, << "zh:er", "zh:zhu" >>,
      << "zh:cai", "zh:er" >>, << "zh:re", "zh:la" >>, << "zh:mei", "zh:rong" >>,
      << "zh:mei", "zh:ti3" >>, << "zh:zhi3", "zh:jia" >>, << "zh:jie", "zh:mao" >>,
      << "zh:mei", "zh:fu" >>, << "zh:mei", "zh:fa" >>, << "zh:hu", "zh:fu" >>,
      << "zh:mei", "zh:yan" >> }

\* The name checks of extract_shop_info: at least two characters and one of
\* the keywords
Precision_name_ok(name) ==
    /\ Len(strip(name)) >= 2
    /\ \E keyword \in beauty_keywords : contains(strip(name), keyword)

\* The other cities is_kaohsiung_address looks for in a short address
other_cities ==
    { << "zh:tai", "zh:bei" >>, << "zh:tai", "zh:zhong" >>, << "zh:tai", "zh:nan" >>,
      << "zh:xin", "zh:bei" >>, << "zh:tao", "zh:yuan" >>, << "zh:jia1", "zh:yi" >>,
      << "zh:ping", "zh:dong" >> }

Kaohsiung == << "zh:gao", "zh:xiong" >>

ShortAddress == 15     \* is_kaohsiung_address: len(address) < 15
MaxAttempts == 3       \* extract_shop_info: for attempt in range(3)

\* Variant of is_kaohsiung_address that does not pass a missing address
Precision_is_kaohsiung_address_strict(address) ==
    \/ contains(address, Kaohsiung)
    \/ /\ Len(address) < ShortAddress
       /\ address \notin {NotProvided.address, FetchFailed.address}
       /\ \A city \in other_cities : ~contains(address, city)

\* KaohsiungPrecisionScraper.is_kaohsiung_address
Precision_is_kaohsiung_address(address) ==
    \/ address = << >>
    \/ address \in {NotProvided.address, FetchFailed.address}
    \/ contains(address, Kaohsiung)
    \/ /\ Len(address) < ShortAddress
       /\ \A city \in other_cities : ~contains(address, city)

\* The test extract_shop_info applies to what an extractor returned
Precision_obtained(f, value) ==
    value # << >> /\ value \notin {NotProvided[f], FetchFailed[f]}

\* Variant of the retry loop that keeps retrying after a success
Precision_retry_over_late(k, success) == k + 1 >= MaxAttempts

\* The retry loop of extract_shop_info is left after attempt k (from 0): on a
\* success (break) or when range(3) is exhausted
Precision_retry_over(k, success) == success \/ k + 1 >= MaxAttempts

\* The field extract_shop_info turns to after field f
NextStep(f) ==
    CASE f = "address" -> "phone"
      [] f = "phone" -> "line_contact"
      [] f = "line_contact" -> "back"

\* aria-label values of the link extract_shop_info is given
InfoLabels ==
    { << "a" >>,
      << "a", "b", "c" >>,
      << " ", "zh:mei", "zh:jia", "a" >> }

\* What the extract_*_detailed methods can return
StreetNumber(k) == Repeat("1", k)
DetailResults ==
    [address |->
        { NotProvided.address, FetchFailed.address,
          Kaohsiung \o StreetNumber(4),
          << "zh:feng", "zh:shan" >> \o StreetNumber(4),
          << "zh:tai", "zh:bei" >> \o StreetNumber(4),
          << "zh:feng", "zh:shan" >> \o StreetNumber(ShortAddress - 3),
          << "zh:feng", "zh:shan" >> \o StreetNumber(ShortAddress - 2) },
     phone |->
        { NotProvided.phone, FetchFailed.phone, << "0", "7" >> },
     line_contact |->
        { NotProvided.line_contact, FetchFailed.line_contact, << "a", "b" >> }]

\* GoogleMapsTurboFirefoxScraper.get_kaohsiung_coordinates, in hundredths of
\* a degree (23.3, 22.4, 120.9, 120.1)
kaohsiung_bounds ==
    [north |-> 2330, south |-> 2240, east |-> 12090, west |-> 12010]

MinGridSize == 2       \* the smallest grid_size tried, in hundredths of a degree
MaxGridSize == 100     \* the largest one, wider than the box

\* grid_size values: 0.02, 0.03 and 0.05 of main among them
GridSizes == MinGridSize..MaxGridSize

Min(a, b) == IF a <= b THEN a ELSE b

\* Variant of the step count without the additional step
Turbo_grid_steps_short(extent, grid_size) == extent \div grid_size

\* create_grid_system: int(extent / grid_size) + 1
Turbo_grid_steps(extent, grid_size) == (extent \div grid_size) + 1

\* GoogleMapsTurboFirefoxScraper.create_grid_system: the list of cells, each
\* with its id and its bounds (the centre is the middle of the bounds)
Turbo_create_grid_system(grid_size) ==
    LET bounds == kaohsiung_bounds
        lat_steps == Turbo_grid_steps(bounds.north - bounds.south, grid_size)
        lng_steps == Turbo_grid_steps(bounds.east - bounds.west, grid_size)
    IN  [k \in 1..(lat_steps * lng_steps) |->
            LET south == bounds.south + ((k - 1) \div lng_steps) * grid_size
                west == bounds.west + ((k - 1) % lng_steps) * grid_size
            IN  [id |-> k,
                 bounds |-> [north |-> Min(south + grid_size, bounds.north),
                             south |-> south,
                             east |-> Min(west + grid_size, bounds.east),
                             west |-> west]]]

MaxPlaces == 3         \* places one area search returns at most

\* The place ids the searches can return; "None" is a place without an id
PlaceIds == {"p1", "p2", "None"}

\* Variant of the global check that never finds the id
yunlin_seen_never(place_id, seen) == FALSE

\* run_search_all_areas: "if place_id in global_seen_places"
yunlin_seen(place_id, seen) == place_id \in seen

\* yunlin.filter_by_business_relevance: beauty_keywords, a character with
\* its code point for a name
yunlin_beauty_keywords ==
    { << "u7f8e", "u7532" >>,
      << "u5149", "u7642", "u6307", "u7532" >>,
      << "u51dd", "u81a0", "u7f8e", "u7532" >>,
      << "u65e5", "u5f0f", "u7f8e", "u7532" >>,
      << "u6307", "u7532" >>,
      << "u624b", "u8db3", "u4fdd", "u990a" >>,
      << "u624b", "u8db3", "u8b77", "u7406" >>,
      << "u7f8e", "u776b" >>,
      << "u5ac1", "u63a5", "u776b", "u6bdb" >>,
      << "u7a2e", "u776b", "u6bdb" >>,
      << "u776b", "u6bdb", "u5ef6", "u4f38" >>,
      << "u776b", "u6bdb" >>,
      << "u776b", "u6bdb", "u5ac1", "u63a5" >>,
      << "u8033", "u71ed" >>,
      << "u8033", "u71ed", "u7642", "u7a0b" >>,
      << "u8033", "u71ed", "S", "P", "A" >>,
      << "u5370", "u5ea6", "u8033", "u71ed" >>,
      << "u63a1", "u8033" >>,
      << "u638f", "u8033" >>,
      << "u8033", "u90e8", "u6e05", "u6f54" >>,
      << "u8033", "S", "P", "A" >>,
      << "u8033", "u90e8", "u8b77", "u7406" >>,
      << "u71b1", "u881f" >>,
      << "u71b1", "u881f", "u9664", "u6bdb" >>,
      << "u871c", "u881f", "u9664", "u6bdb" >>,
      << "u6bd4", "u57fa", "u5c3c", "u71b1", "u881f" >>,
      << "u79c1", "u5bc6", "u8655", "u9664", "u6bdb" >>,
      << "u9664", "u6bdb" >>,
      << "u5df4", "u897f", "u9664", "u6bdb" >>,
      << "u7f8e", "u5bb9" >>,
      << "u7f8e", "u9ad4" >>,
      << "u8b77", "u819a" >>,
      << "u4fdd", "u990a" >>,
      << "S", "P", "A" >>,
      << "u5de5", "u4f5c", "u5ba4" >>,
      << "u6c99", "u9f8d" >> }

\* yunlin.filter_by_business_relevance: exclude_keywords
yunlin_exclude_keywords ==
    { << "u5e7c", "u7a1a", "u5712" >>,
      << "u5b78", "u6821" >>,
      << "u91ab", "u9662" >>,
      << "u8a3a", "u6240" >>,
      << "u85e5", "u5c40" >>,
      << "u9280", "u884c" >>,
      << "u90f5", "u5c40" >>,
      << "u8d85", "u5546" >>,
      << "u4fbf", "u5229", "u5546", "u5e97" >>,
      << "7", "-", "1", "1" >>,
      << "u5168", "u5bb6" >>,
      << "u840a", "u723e", "u5bcc" >>,
      << "u52a0", "u6cb9", "u7ad9" >>,
      << "u4e2d", "u6cb9" >>,
      << "u53f0", "u5851" >>,
      << "u4fee", "u8eca" >>,
      << "u6c7d", "u8eca" >>,
      << "u6a5f", "u8eca" >>,
      << "u901a", "u8a0a" >>,
      << "u624b", "u6a5f" >>,
      << "u96fb", "u4fe1" >>,
      << "u7db2", "u8def" >>,
      << "u9910", "u5ef3" >>,
      << "u5c0f", "u5403" >>,
      << "u96de", "u6392" >>,
      << "u98f2", "u6599" >>,
      << "u5496", "u5561" >>,
      << "u4fbf", "u7576" >>,
      << "u9eb5", "u5e97" >>,
      << "u706b", "u934b" >>,
      << "u71d2", "u70e4" >>,
      << "u516c", "u53f8" >>,
      << "u4f01", "u696d" >>,
      << "u5de5", "u5ee0" >>,
      << "u5efa", "u8a2d" >>,
      << "u4e0d", "u52d5", "u7522" >>,
      << "u623f", "u4ef2" >>,
      << "u4fdd", "u96aa" >>,
      << "u5f8b", "u5e2b" >>,
      << "u6703", "u8a08" >>,
      << "u9867", "u554f" >> }

\* The place types that count as beauty ones
yunlin_beauty_types == {"beauty_salon", "hair_care", "spa"}

\* filter_by_business_relevance: is_beauty_related, on the lower-cased name
\* and address
yunlin_is_beauty_related(place) ==
    \E beauty_keyword \in yunlin_beauty_keywords :
       \/ contains(lower(place.name), beauty_keyword)
       \/ contains(lower(place.address), beauty_keyword)

\* filter_by_business_relevance: is_excluded
yunlin_is_excluded(place) ==
    \E exclude_keyword \in yunlin_exclude_keywords :
       \/ contains(lower(place.name), exclude_keyword)
       \/ contains(lower(place.address), exclude_keyword)

\* filter_by_business_relevance: the place is appended to relevant_places
yunlin_relevant(place) ==
    \/ yunlin_is_beauty_related(place)
    \/ place.types \cap yunlin_beauty_types # {}
    \/ ~yunlin_is_excluded(place)

\* yunlin.filter_by_business_relevance
yunlin_filter_by_business_relevance(found) == SelectSeq(found, yunlin_relevant)

MaxFilterLen == 2      \* places in one list given to the filter

\* The places a search can return: name, address and types
FilterNames ==
    { << "u7f8e", "u7532" >>,
      << "u7f8e", "u7532", "u9910", "u5ef3" >>,
      << "S", "P", "A", "u9910", "u5ef3" >>,
      << "s", "p", "a" >>,
      << "u9910", "u5ef3" >>,
      << "a", "b" >> }
FilterAddresses == { << >>, << "u7f8e", "u5bb9", "u8def" >> }
FilterTypes == { {}, {"spa"} }
FilterPlaces ==
    [name : FilterNames, address : FilterAddresses, types : FilterTypes]
FilterLists ==
    UNION { [1..k -> FilterPlaces] : k \in 0..MaxFilterLen }

FnInit ==
    /\ scraper = "Functions"
    /\ target_shops = 1
    /\ shops_data = << >>
    /\ pc = "functions"
    /\ i = 0 /\ j = 0 /\ n = 0
    /\ offers = 0
    /\ offered = << >>
    /\ last_offer = NoOffer
    /\ current_location = 0
    /\ current_location_shops = << >>
    /\ scroll_count = 0 /\ no_change_count = 0 /\ last_count = 0
    /\ seen_hrefs = {}
    /\ ret_pc = "none"
    /\ new_shops = 0
    /\ should_continue = TRUE
    /\ tpc = [t \in Threads |-> "idle"]
    /\ tshop = [t \in Threads |-> NoShop]
    /\ data_lock = NoThread
    /\ source_stats = EmptyDict
    /\ stats_reported = FALSE
    /\ fn = "none" /\ arg = << >> /\ out = << >>
    /\ InfoInit
    /\ YunlinInit
    /\ RunInit

\* What an application leaves alone
MainVars ==
    << ConfigVars, StatVars, RunVars, shops_data, pc, i, j, n, offers, offered, last_offer,
       LocVars, ScrollVars, ThreadVars >>

\* GoogleMapsDetailedScraper.extract_shop_info_detailed: the name cleaning
NormalizeName ==
    /\ scraper = "Functions" /\ fn = "none"
    /\ \E raw \in RawNames :
          /\ fn' = "normalize_name"
          /\ arg' = raw
          /\ out' = Detailed_normalize_name(raw)
    /\ UNCHANGED << MainVars, YunlinVars, InfoVars >>

\* KaohsiungPrecisionScraper.extract_phone_detailed: one element of the
\* selector loop
PhoneOfElement ==
    /\ scraper = "Functions" /\ fn = "none"
    /\ \E element_text \in PhoneTexts :
          /\ fn' = "phone_of_element"
          /\ arg' = element_text
          /\ out' = Precision_phone_of_element(element_text)
    /\ UNCHANGED << MainVars, YunlinVars, InfoVars >>

\* GoogleMapsTurboFirefoxScraper.create_grid_system
CreateGrid ==
    /\ scraper = "Functions" /\ fn = "none"
    /\ \E grid_size \in GridSizes :
          /\ fn' = "create_grid_system"
          /\ arg' = grid_size
          /\ out' = Turbo_create_grid_system(grid_size)
    /\ UNCHANGED << MainVars, YunlinVars, InfoVars >>

\* KaohsiungPrecisionScraper.extract_shop_info (info is its shop_info) up to
\* the first retry loop:
\* the name checks, the record with its three fields "not provided", the
\* main window handle
ExtractBegin ==
    /\ scraper = "Functions" /\ fn = "none"
    /\ \E label \in InfoLabels, handle_ok \in BOOLEAN :
          /\ fn' = "extract_shop_info"
          /\ arg' = label
          /\ IF ~Precision_name_ok(label)
             THEN /\ step' = "skipped"
                  /\ UNCHANGED info
             ELSE /\ info' = [name         |-> strip(label),
                                   address      |-> NotProvided.address,
                                   phone        |-> NotProvided.phone,
                                   line_contact |-> NotProvided.line_contact]
                  /\ step' = IF handle_ok THEN "address" ELSE "failed"
    /\ UNCHANGED << MainVars, YunlinVars, out, attempt, calls, got, info_result >>

\* One pass of a retry loop of extract_shop_info: the extractor is called,
\* and the loop is left with the field set, left with nothing, or goes on
ExtractAttempt ==
    /\ fn = "extract_shop_info"
    /\ step \in DetailFields
    /\ \E value \in DetailResults[step] :
          LET success == Precision_obtained(step, value)
              over == Precision_retry_over(attempt, success)
          IN  /\ calls' = [calls EXCEPT ![step] = @ + 1]
              /\ info' = IF success
                              THEN [info EXCEPT ![step] = value]
                              ELSE info
              /\ got' = IF success THEN got \cup {step} ELSE got
              /\ step' = IF over THEN NextStep(step) ELSE step
              /\ attempt' = IF over THEN 0 ELSE attempt + 1
    /\ UNCHANGED << MainVars, YunlinVars, fn, arg, out, info_result >>

\* The detail step raises: the click, the wait or the first scroll before
\* any attempt, or the scroll between two attempts; the handler goes back
\* and the method goes on to the address check
ExtractRaises ==
    /\ fn = "extract_shop_info"
    /\ \/ step = "address" /\ attempt = 0
       \/ step \in DetailFields /\ attempt > 0
    /\ out' = << step >>
    /\ step' = "verify"
    /\ attempt' = 0
    /\ UNCHANGED << MainVars, YunlinVars, fn, arg, info, calls, got, info_result >>

\* driver.back() after the three loops, whether or not it raises
ExtractBack ==
    /\ fn = "extract_shop_info"
    /\ step = "back"
    /\ step' = "verify"
    /\ UNCHANGED << MainVars, YunlinVars, fn, arg, out, info, attempt, calls, got, info_result >>

\* The address check and the return
ExtractVerify ==
    /\ fn = "extract_shop_info"
    /\ step = "verify"
    /\ info_result' = IF Precision_is_kaohsiung_address(info.address)
                 THEN << info >>
                 ELSE << >>
    /\ step' = "returned"
    /\ UNCHANGED << MainVars, YunlinVars, fn, arg, out, info, attempt, calls, got >>

\* yunlin.filter_by_business_relevance
FilterByRelevance ==
    /\ scraper = "Functions" /\ fn = "none"
    /\ \E found \in FilterLists :
          /\ fn' = "filter_by_business_relevance"
          /\ arg' = found
          /\ out' = yunlin_filter_by_business_relevance(found)
    /\ UNCHANGED << MainVars, InfoVars, YunlinVars >>

\* yunlin.run_search_all_areas is called: all_results = []
YunlinStart ==
    /\ scraper = "Functions" /\ fn = "none"
    /\ fn' = "run_search_all_areas"
    /\ all_results' = << >>
    /\ area' = 0 /\ places' = 0
    /\ UNCHANGED << MainVars, InfoVars, arg, out, global_seen_places >>

\* run_search_all_areas: one turn of "for place in places": the global
\* check, then the details and the append, which an exception cuts short
YunlinPlace ==
    /\ fn = "run_search_all_areas"
    /\ area < NumAreas /\ places < MaxPlaces
    /\ \E place_id \in PlaceIds, details_ok \in BOOLEAN :
          IF yunlin_seen(place_id, global_seen_places)
          THEN /\ out' = << place_id, "skipped" >>
               /\ UNCHANGED << all_results, global_seen_places >>
          ELSE /\ global_seen_places' = global_seen_places \cup {place_id}
               /\ IF details_ok
                  THEN /\ all_results' =
                             Append(all_results, [place_id |-> place_id, area |-> area])
                       /\ out' = << place_id, "added" >>
                  ELSE /\ out' = << place_id, "failed" >>
                       /\ UNCHANGED all_results
    /\ places' = places + 1
    /\ UNCHANGED << MainVars, InfoVars, fn, arg, area >>

\* run_search_all_areas: the places of this area are exhausted; the next area
YunlinNextArea ==
    /\ fn = "run_search_all_areas"
    /\ area < NumAreas
    /\ area' = area + 1
    /\ places' = 0
    /\ UNCHANGED << MainVars, InfoVars, fn, arg, out, all_results, global_seen_places >>

FnNext ==
    \/ NormalizeName
    \/ PhoneOfElement
    \/ CreateGrid
    \/ ExtractBegin
    \/ ExtractAttempt
    \/ ExtractRaises
    \/ ExtractBack
    \/ ExtractVerify
    \/ FilterByRelevance
    \/ YunlinStart
    \/ YunlinPlace
    \/ YunlinNextArea

SpecFn == FnInit /\ [][FnNext]_vars

----------------------------------------------------------------------------
(* Properties *)

\* The name as the duplicate checks compare it: lower-cased and trimmed
NormName(s) == lower(strip(s))

\* Some record of data carries the normalised name of shop
NameIn(data, shop) ==
    \E k \in 1..Len(data) : NormName(data[k].name) = NormName(shop.name)

\* Some record of data carries the (non-empty) URL of shop
UrlIn(data, shop) ==
    /\ shop.google_maps_url # EmptyStr
    /\ \E k \in 1..Len(data) : data[k].google_maps_url = shop.google_maps_url

\* A candidate has been offered
Offered == last_offer.result # "none"

\* The last candidate was turned away and left the list as it was
Rejected == last_offer.result # "admitted" /\ shops_data = last_offer.before

\* C1: in KaohsiungPrecisionScraper and GoogleMapsDetailedScraper the number
\* of records in shops_data never exceeds target_shops.
C1_CapNeverExceeded ==
    scraper \in {"Precision", "Detailed"} => Len(shops_data) <= target_shops

\* C2: a candidate whose lower-cased, trimmed name equals that of a record
\* already in shops_data is rejected and shops_data is unchanged
\* (Precision.is_new_shop, add_shop_data of Fast and Multi).
C2_SameNameRejected ==
    (/\ scraper \in {"Fast", "Multi", "Precision"}
     /\ Offered
     /\ NameIn(last_offer.before, last_offer.shop))
    => Rejected

\* A candidate was rejected by Precision for its name alone: it differs from
\* the record it repeats in spelling and in URL.
C2_Witness ==
    /\ scraper = "Precision"
    /\ last_offer.result = "duplicate"
    /\ shops_data = last_offer.before
    /\ \E k \in 1..Len(last_offer.before) :
          /\ NormName(last_offer.before[k].name) = NormName(last_offer.shop.name)
          /\ last_offer.before[k].name # last_offer.shop.name
    /\ ~UrlIn(last_offer.before, last_offer.shop)

\* C3: a candidate whose non-empty google_maps_url equals that of an
\* accumulated record is rejected whatever its name is (Precision.is_new_shop,
\* Turbo.is_new_shop_fast).
C3_SameUrlRejected ==
    (/\ scraper \in {"Precision", "Turbo"}
     /\ Offered
     /\ UrlIn(last_offer.before, last_offer.shop))
    => Rejected

\* Turbo rejected a candidate with a new name for its URL.
C3_Witness ==
    /\ scraper = "Turbo"
    /\ last_offer.result = "duplicate"
    /\ UrlIn(last_offer.before, last_offer.shop)
    /\ ~NameIn(last_offer.before, last_offer.shop)
    /\ Len(strip(last_offer.shop.name)) >= 2

\* C4: in run_fast_scraping and run_multi_source_scraping, once
\* len(shops_data) has reached target_shops no later step changes shops_data.
C4_NoChangeAfterCap ==
    [][(scraper \in {"Fast", "Multi"} /\ Len(shops_data) >= target_shops)
          => shops_data' = shops_data]_vars

\* A candidate was offered after the cap had been reached and was dropped.
C4_Witness ==
    /\ scraper \in {"Fast", "Multi"}
    /\ last_offer.result = "cap"
    /\ Len(last_offer.before) = target_shops
    /\ shops_data = last_offer.before
    /\ ~NameIn(last_offer.before, last_offer.shop)

\* C5: when several threads each test len(shops_data) < target_shops and then
\* call add_shop_data, len(shops_data) never exceeds target_shops.
C5_ThreadsNeverExceedCap ==
    scraper \in {"FastThreads", "MultiThreads"} => Len(shops_data) <= target_shops

\* test_improved_scraper: the duplicate count of its check loop, from record k
\* on, given the names and URLs seen so far
RECURSIVE test_duplicates(_, _, _, _)
test_duplicates(data, k, unique_names, unique_urls) ==
    IF k > Len(data) THEN 0
    ELSE LET name == strip(lower(data[k].name))
             url == strip(data[k].google_maps_url)
         IN IF name \in unique_names \/ url \in unique_urls
            THEN 1 + test_duplicates(data, k + 1, unique_names, unique_urls)
            ELSE test_duplicates(data, k + 1, unique_names \cup {name},
                                 unique_urls \cup {url})

\* C6: after run_precision_scraping has returned, no two records of shops_data
\* have the same lower-cased trimmed name or the same google_maps_url, and the
\* duplicate count the test computes is 0.
C6_NoDuplicatesAtEnd ==
    (scraper = "Precision" /\ pc = "done")
    => /\ \A a, b \in 1..Len(shops_data) :
             a < b => /\ NormName(shops_data[a].name) # NormName(shops_data[b].name)
                      /\ shops_data[a].google_maps_url # shops_data[b].google_maps_url
       /\ test_duplicates(shops_data, 1, {}, {}) = 0

\* A Precision run ended with several records, after turning a duplicate away.
C6_Witness ==
    /\ scraper = "Precision" /\ pc = "done"
    /\ Len(shops_data) >= 2
    /\ last_offer.result = "duplicate"

\* C7: in GoogleMapsDetailedScraper a name admitted under one search location
\* and offered with a different URL under another location is not suppressed
\* by the record of the other location.
C7_OtherLocationNeverSuppresses ==
    (/\ scraper = "Detailed"
     /\ Offered
     /\ ~UrlIn(last_offer.before, last_offer.shop)
     /\ \E k \in 1..Len(last_offer.before) :
           /\ NormName(last_offer.before[k].name) = NormName(last_offer.shop.name)
           /\ last_offer.before[k].search_location # last_offer.shop.search_location
     /\ \A k \in 1..Len(last_offer.before) :
           last_offer.before[k].search_location = last_offer.shop.search_location
           => NormName(last_offer.before[k].name) # NormName(last_offer.shop.name))
    => last_offer.result # "duplicate"

\* C8: accumulation is append-only and records are immutable: every step
\* leaves the earlier shops_data a prefix of the later one, and a duplicate
\* sighting leaves the list, the duplicated record included, as it was.
C8_AppendOnly ==
    [][(scraper \in {"Fast", "Multi", "Precision"})
          => (IsPrefix(shops_data, shops_data')
              /\ (last_offer'.result = "duplicate" => shops_data' = shops_data))]_vars

\* Multi turned away a sighting that differs from the record it duplicates.
C8_Witness ==
    /\ scraper = "Multi"
    /\ last_offer.result = "duplicate"
    /\ shops_data = last_offer.before
    /\ \E k \in 1..Len(shops_data) :
          /\ NormName(shops_data[k].name) = NormName(last_offer.shop.name)
          /\ shops_data[k] # last_offer.shop

\* The candidates of seq, in order, without those whose normalised name an
\* earlier kept one carries; acc holds the kept ones
RECURSIVE DedupByName(_, _)
DedupByName(acc, seq) ==
    IF seq = << >> THEN acc
    ELSE IF NameIn(acc, Head(seq)) THEN DedupByName(acc, Tail(seq))
    ELSE DedupByName(Append(acc, Head(seq)), Tail(seq))

\* C9: the final shops_data of run_fast_scraping is the sequence of offered
\* candidates, in offer order, without name duplicates, cut off after
\* target_shops records.
C9_FastFinalResult ==
    (scraper = "Fast" /\ pc = "done")
    => shops_data = Take(DedupByName(<< >>, offered), target_shops)

\* A Fast run ended after both a duplicate was dropped and the cap cut the
\* sequence.
C9_Witness ==
    /\ scraper = "Fast" /\ pc = "done"
    /\ Len(DedupByName(<< >>, offered)) < Len(offered)
    /\ Len(DedupByName(<< >>, offered)) > target_shops
    /\ Len(shops_data) = target_shops

\* C10, as stated: MultiSourceKaohsiungScraper.add_shop_data admits every
\* candidate whose name matches no accumulated record; it rejects only on a
\* name match (or a match of non-empty URLs).
C10_RejectedOnlyOnNameMatch ==
    (scraper = "Multi" /\ last_offer.result \in {"admitted", "duplicate"})
    => (last_offer.result = "duplicate"
           <=> \/ NameIn(last_offer.before, last_offer.shop)
               \/ UrlIn(last_offer.before, last_offer.shop))

\* Some record of data carries the phone of shop, which is a real number
\* (neither empty nor the "to be looked up" placeholder)
PhoneIn(data, shop) ==
    /\ shop.phone \notin {"", MultiNeedsQuery}
    /\ \E k \in 1..Len(data) : data[k].phone = shop.phone

\* C10, amended: add_shop_data appends the candidate exactly when no
\* accumulated record has its lower-cased trimmed name and none has its phone
\* (a phone that is neither empty nor the placeholder); otherwise it leaves
\* shops_data as it was.
C10_RejectedOnNameOrPhoneMatch ==
    (scraper = "Multi" /\ last_offer.result \in {"admitted", "duplicate"})
    => /\ last_offer.result = "duplicate"
             <=> \/ NameIn(last_offer.before, last_offer.shop)
                 \/ PhoneIn(last_offer.before, last_offer.shop)
       /\ last_offer.result = "duplicate" => shops_data = last_offer.before
       /\ last_offer.result = "admitted"
             => shops_data = Append(last_offer.before, last_offer.shop)

\* Multi rejected a candidate with a new name for its phone number.
C10_Witness ==
    /\ scraper = "Multi"
    /\ last_offer.result = "duplicate"
    /\ ~NameIn(last_offer.before, last_offer.shop)
    /\ PhoneIn(last_offer.before, last_offer.shop)

\* The sum of the counts of the statistics dict over the sources S
RECURSIVE SumStats(_, _)
SumStats(stats, S) ==
    IF S = {} THEN 0
    ELSE LET x == CHOOSE y \in S : TRUE IN stats[x] + SumStats(stats, S \ {x})

\* C11: at the end of run_fast_scraping and run_multi_source_scraping the
\* per-source counts of the statistics sum to len(shops_data), every record
\* being counted under exactly one source (its own).
C11_StatsSumToCount ==
    (scraper \in {"Fast", "Multi"} /\ pc = "done" /\ stats_reported)
    => /\ SumStats(source_stats, DOMAIN source_stats) = Len(shops_data)
       /\ DOMAIN source_stats = {shops_data[k].source : k \in 1..Len(shops_data)}
       /\ \A x \in DOMAIN source_stats :
             source_stats[x] =
                Cardinality({k \in 1..Len(shops_data) : shops_data[k].source = x})

\* A run ended with statistics over several records of one source.
C11_Witness ==
    /\ scraper \in {"Fast", "Multi"} /\ pc = "done" /\ stats_reported
    /\ \E x \in DOMAIN source_stats : source_stats[x] >= 2

\* The cleaned name the length and placeholder tests look at
Cleaned(raw) == remove_prefixes(strip(raw), 1)

\* The lower-cased name holds a placeholder token somewhere
HoldsPlaceholder(name) ==
    \E keyword \in invalid_keywords :
        \E k \in 1..Len(name) :
            /\ k + Len(keyword) - 1 <= Len(name)
            /\ \A d \in 1..Len(keyword) : lower_char(name[k + d - 1]) = keyword[d]

\* C12: the name cleaning of extract_shop_info_detailed (trim, then strip the
\* noise prefixes) rejects a name exactly when the cleaned name is shorter than
\* 2 or matches a placeholder token (its lower-cased form contains undefined,
\* null, loading, ...); every other name is kept, cleaned, a name of length
\* exactly 2 included.
C12_RejectsShortOrPlaceholder ==
    fn = "normalize_name"
    => /\ out.ok <=> (Len(Cleaned(arg)) >= 2 /\ ~HoldsPlaceholder(Cleaned(arg)))
       /\ out.ok => out.name = Cleaned(arg)
       /\ (Len(Cleaned(arg)) = 2) => out.ok

\* A name of exactly 2 characters was kept after a prefix was stripped.
C12_Witness ==
    /\ fn = "normalize_name"
    /\ out.ok /\ Len(out.name) = 2
    /\ Len(strip(arg)) > 2

\* The text is made of digits and separators (spaces, hyphens, parentheses)
DigitsAndSeparators(text) == \A k \in 1..Len(text) : text[k] \in phone_chars

\* The number of digits of the text
DigitCount(text) == Cardinality({k \in 1..Len(text) : isdigit(text[k])})

C15_NoSearchAfterTarget ==
    [][(scraper = "Precision" /\ Len(shops_data) >= target_shops)
          => /\ pc # "landmark" /\ pc' # "landmark"
             /\ pc = "shop_type" => pc' = "save"
             /\ pc # "extract" => pc' # "extract"]_vars

\* The run has gone to the export with the target reached while landmarks
\* were left
C15_Witness ==
    /\ scraper = "Precision"
    /\ Len(shops_data) >= target_shops
    /\ pc = "save"
    /\ i + 1 < NumLandmarks

C16_AdmittedAddressHoldsKaohsiung ==
    (fn = "extract_shop_info" /\ step = "returned" /\ info_result # << >>)
    => contains(info_result[1].address, Kaohsiung)

\* C18: for every grid_size the cells create_grid_system returns lie inside
\* the Kaohsiung bounding box, and together they cover it: every square of a
\* hundredth of a degree of the box lies in one cell (cell bounds are whole
\* hundredths, so this is every point of the box).
C18_GridCoversBox ==
    fn = "create_grid_system"
    => LET box == kaohsiung_bounds IN
       /\ \A k \in 1..Len(out) :
             /\ box.south <= out[k].bounds.south
             /\ out[k].bounds.south <= out[k].bounds.north
             /\ out[k].bounds.north <= box.north
             /\ box.west <= out[k].bounds.west
             /\ out[k].bounds.west <= out[k].bounds.east
             /\ out[k].bounds.east <= box.east
       /\ \A lat \in box.south..(box.north - 1), lng \in box.west..(box.east - 1) :
             \E k \in 1..Len(out) :
                /\ out[k].bounds.south <= lat /\ lat + 1 <= out[k].bounds.north
                /\ out[k].bounds.west <= lng /\ lng + 1 <= out[k].bounds.east

\* A grid of several cells whose last column was cut at the east border
C18_Witness ==
    /\ fn = "create_grid_system"
    /\ Len(out) > 1
    /\ \E k \in 1..Len(out) :
          /\ out[k].bounds.east = kaohsiung_bounds.east
          /\ out[k].bounds.west < out[k].bounds.east
          /\ out[k].bounds.east - out[k].bounds.west < arg

\* C19: in yunlin.run_search_all_areas the result list never holds two
\* records with the same place_id, whatever the areas return.
C19_NoRepeatedPlaceId ==
    fn = "run_search_all_areas"
    => \A a, b \in 1..Len(all_results) :
          a # b => all_results[a].place_id # all_results[b].place_id

\* A place already recorded for an earlier area was returned again and
\* skipped
C19_Witness ==
    /\ fn = "run_search_all_areas"
    /\ Len(all_results) >= 2
    /\ Len(out) = 2 /\ out[2] = "skipped"
    /\ \E a \in 1..Len(all_results) :
          /\ all_results[a].place_id = out[1]
          /\ all_results[a].area < area

\* C20: in KaohsiungPrecisionScraper.extract_shop_info each extractor is
\* called at most three times; a loop is left at its first success; after
\* three failures the field stays "not provided"; and unless the detail step
\* raised, every field was tried until it succeeded or failed three times,
\* whatever happened to the fields before it.
C20_ThreeAttemptsPerField ==
    fn = "extract_shop_info"
    => \A f \in DetailFields :
          /\ calls[f] <= MaxAttempts
          /\ f \in got => step # f
          /\ (f \notin got /\ calls[f] = MaxAttempts)
                => (step # f /\ info[f] = NotProvided[f])
          /\ (step = "returned" /\ out = << >>)
                => (f \in got \/ calls[f] = MaxAttempts)

\* The address was given up after three attempts and the phone was then
\* obtained at its second attempt
C20_Witness ==
    /\ fn = "extract_shop_info" /\ step = "returned"
    /\ "address" \notin got /\ calls.address = MaxAttempts
    /\ "phone" \in got /\ calls.phone = 2
    /\ info.address = NotProvided.address

\* C21: in KaohsiungPrecisionScraper.scroll_and_extract the no-change counter
\* counts the consecutive rounds of this call that admitted nothing: a round
\* that admitted no shop raises it by one, a round that admitted one resets it.
C21_CounterCountsIdleRounds ==
    [][(PrecisionExtractEnd /\ ret_pc = "round")
          => no_change_count' = IF new_shops = 0 THEN no_change_count + 1 ELSE 0]_vars

\* C22: run_precision_scraping terminates when every call returns: a
\* scroll_and_extract call never goes beyond max_scrolls rounds, the loops
\* once entered lead to the export step unless a statement raises, and the
\* run ends, with the browser quit, and stays ended.
C22_RunTerminates ==
    /\ [](scroll_count <= max_scrolls)
    /\ (pc = "landmark") ~> (pc = "save" \/ raised)
    /\ <>[](pc = "done" /\ (driver => quits = 1))

\* The run has ended without an exception after a scroll_and_extract call
\* that used all its rounds
C22_Witness ==
    /\ scraper = "Precision" /\ pc = "done"
    /\ ~raised /\ quits = 1
    /\ scroll_count = max_scrolls

\* C23: in run_precision_scraping and run_detailed_scraping the shop-type
\* loop is left through "if not should_continue: break" only with the target
\* reached, and an extraction that failed below the target is followed by
\* the next shop type of the same landmark.
C23_BreakOnlyAtTarget ==
    [][(scraper \in {"Precision", "Detailed"} /\ pc = "extract" /\ pc' # "extract")
          => /\ ~should_continue' => Len(shops_data') >= target_shops
             /\ (Len(shops_data') < target_shops /\ j + 1 < NumShopTypes)
                   => (pc' = "shop_type" /\ j' = j + 1 /\ i' = i)]_vars

\* C24: in run_multi_source_scraping a failure raised in a platform's try
\* block leaves shops_data as it is and is followed by the next platform of
\* the task, or after the last platform by the next task.
C24_PlatformFailureIsSkipped ==
    [][MultiPlatformFails
          => /\ shops_data' = shops_data
             /\ j + 1 < Len(MultiPlatforms)
                   => (pc' = "platform" /\ i' = i /\ j' = j + 1)
             /\ (j + 1 >= Len(MultiPlatforms) /\ i + 1 < NumTasks
                   /\ Len(shops_data) < target_shops)
                   => (pc' = "platform" /\ i' = i + 1 /\ j' = 0)]_vars

\* After a failure the run holds records and is at a later platform
C24_Witness ==
    /\ scraper = "Multi" /\ raised
    /\ pc = "platform" /\ j > 0
    /\ Len(shops_data) >= 1

\* A place as the keyword lists name it: its name or its address holds one of
\* the listed beauty keywords, or it has a beauty type
ListedAsBeauty(place) ==
    \/ \E beauty_keyword \in yunlin_beauty_keywords :
          contains(place.name, beauty_keyword) \/ contains(place.address, beauty_keyword)
    \/ place.types \cap yunlin_beauty_types # {}

\* s can be had from t by leaving elements out
RECURSIVE IsSubsequence(_, _)
IsSubsequence(s, t) ==
    IF s = << >> THEN TRUE
    ELSE IF t = << >> THEN FALSE
    ELSE IF Head(s) = Head(t) THEN IsSubsequence(Tail(s), Tail(t))
    ELSE IsSubsequence(s, Tail(t))

\* C25: yunlin.filter_by_business_relevance keeps every place whose name or
\* address holds a listed beauty keyword or that has a beauty type, whatever
\* exclude keyword it also holds, and its output is a subsequence of its input.
C25_BeautyPlacesKept ==
    fn = "filter_by_business_relevance"
    => /\ \A k \in 1..Len(arg) :
             ListedAsBeauty(arg[k]) => \E m \in 1..Len(out) : out[m] = arg[k]
       /\ IsSubsequence(out, arg)

\* C26: in run_precision_scraping an exception raised while records are held
\* has them passed to save_to_excel by the handler, and whenever the method
\* has returned, a driver that was set up has been quit exactly once, and no
\* driver is quit before.
C26_EmergencySaveAndQuit ==
    scraper = "Precision"
    => /\ (raised /\ shops_data # << >>)
             => /\ saves # << >>
                /\ saves[Len(saves)] = [kind |-> "emergency", shops |-> shops_data]
       /\ pc = "done" => quits = (IF driver THEN 1 ELSE 0)
       /\ pc # "done" => quits = 0
       /\ pc \in {"landmark", "shop_type", "extract", "save"} => driver

\* The run raised while it held records, saved them and quit the browser
C26_Witness ==
    /\ scraper = "Precision" /\ pc = "done"
    /\ raised /\ Len(shops_data) >= 1
    /\ saves = << [kind |-> "emergency", shops |-> shops_data] >>
    /\ quits = 1

\* C27: under every interleaving of concurrent add_shop_data calls of
\* FastKaohsiungScraper or MultiSourceKaohsiungScraper, shops_data never holds
\* two records with the same lower-cased trimmed name, and the duplicate loop
\* and the append of a call run with data_lock held by that call.
C27_ThreadsNoDuplicateNames ==
    scraper \in {"FastThreads", "MultiThreads"}
    => /\ \A a, b \in 1..Len(shops_data) :
             a # b => NormName(shops_data[a].name) # NormName(shops_data[b].name)
       /\ \A t \in Threads : tpc[t] \in {"scan", "append"} => data_lock = t

\* Two calls with the same name at once: one holds the lock and has found
\* no duplicate, the other waits for the lock
C27_Witness ==
    /\ scraper \in {"FastThreads", "MultiThreads"}
    /\ \E t, u \in Threads :
          /\ t # u
          /\ tpc[t] = "append" /\ data_lock = t
          /\ tpc[u] = "call"
          /\ NormName(tshop[t].name) = NormName(tshop[u].name)

====
